---- MODULE Spec2Model ----
(***************************************************************************)
(* Model of the LocalLLM chat server: the message store                    *)
(* (src/src/database/index.js), the chat handlers handleChat and           *)
(* handleChatStream (src/unnamed/part_003, the llm module) and the         *)
(* conversation routes (src/src/routes/conversations.js).                  *)
(*                                                                         *)
(* Every awaited call of a handler is one action: the action performs the  *)
(* call's effect on the store (or its failure) together with the           *)
(* synchronous code that runs up to the next await.  Strings are sequences *)
(* of one-character strings; a fixed text of the source is one element.    *)
(***************************************************************************)
EXTENDS Bags, FiniteSets, Integers, Sequences, TLC

(***************************************************************************)
(* Bounds of the model.                                                    *)
(***************************************************************************)
\* config.CONTEXT_WINDOW_MESSAGES (environment-configurable, default 20),
\* scaled down
CONTEXT_WINDOW_MESSAGES == 2
\* chat requests accepted over a run
MaxRequests == 2

\* requests of any kind accepted over a run
MaxCalls == 3

\* conversation ids a request may name (ids 1..MaxConvs)
MaxConvs == 1
\* seconds the clock may advance (CURRENT_TIMESTAMP has second resolution)
MaxTime == 1
\* parts an upstream token stream may yield
MaxChunks == 1
\* calls of the file routes in one behaviour
MaxFileCalls == 3
\* calls of POST /images/generate in one behaviour
MaxImageCalls == 2
\* rows of rate_limit_log: beyond these no request enters rateLimitMiddleware
MaxLogRows == 31
\* the clock of the rate limiter stops here, in seconds
MaxElapsed == 3600
\* requests of POST /login in one behaviour
MaxLogins == 3
\* words of a first message whose title is generated
MaxWords == 6

\* req.session.userId of the authenticated users
Users == {1, 2}
\* request slots: the requests that may be in flight at the same time
ReqIds == {1, 2}
\* a falsy conversationId of the request body (none supplied)
NoId == 0

(***************************************************************************)
(* Texts.                                                                  *)
(***************************************************************************)
Hi == <<"H", "i">>
\* the value of a field the request body does not have
Undefined == <<"undefined">>
\* request bodies: the message is missing, empty, whitespace-only or a text
Bodies ==
  {[conversationId |-> c, message |-> m] :
     c \in 0..MaxConvs, m \in {Undefined, <<>>, <<" ", " ">>, Hi}}
\* titles sent to PUT /conversations/:id/title
TitleInputs == {<<>>, <<" ">>, <<" ", "T", " ">>}
\* response.message.content of a single-shot completion
AiResponses == {<<"o", "k">>}
\* part.message.content of the parts of a token stream (may be empty)
Chunks == {<<>>, <<"a">>}
\* error.message of a rejected call
DbError == "SQLITE_ERROR"
UpstreamError == "fetch failed"

UnavailableText ==
  <<"Sorry, the AI service is currently unavailable. (Ollama not running)\n\nEcho: ">>
ErrorText ==
  <<"Sorry, I encountered an error processing your request. Please try again.\n\nError: ">>
StreamErrorText == <<"Sorry, I encountered an error: ">>
SystemText ==
  <<"This is a continuation of an ongoing conversation. Previous context may have been truncated due to length limits. Please maintain consistency with the conversation flow.">>
LLM_MODEL == "llama3.2:3b"
NoModel == "null"

IsSpace(ch) == ch \in {" ", "\n", "\t"}

\* String.prototype.trim
RECURSIVE TrimLeft(_)
TrimLeft(s) ==
  IF s # <<>> /\ IsSpace(Head(s)) THEN TrimLeft(Tail(s)) ELSE s

RECURSIVE TrimRight(_)
TrimRight(s) ==
  IF s # <<>> /\ IsSpace(s[Len(s)]) THEN TrimRight(SubSeq(s, 1, Len(s) - 1)) ELSE s

Trim(s) == TrimRight(TrimLeft(s))

(***************************************************************************)
(* extractPlainText (content module) and generateConversationTitle.        *)
(* Each String.replace(/re/g, ...) is a left-to-right scan: at the         *)
(* leftmost match the replacement is emitted and the scan goes on after    *)
(* the match.                                                              *)
(***************************************************************************)
\* first index >= i where ch occurs in s, 0 when there is none
RECURSIVE IndexFrom(_, _, _)
IndexFrom(s, i, ch) ==
  IF i > Len(s) THEN 0
  ELSE IF s[i] = ch THEN i ELSE IndexFrom(s, i + 1, ch)

\* the grave accent (U+0060); the lexer of TLA+ takes no such character
Backtick == "U+0060"

\* first index >= i where three grave accents start, 0 when none
RECURSIVE FenceFrom(_, _)
FenceFrom(s, i) ==
  IF i + 2 > Len(s) THEN 0
  ELSE IF s[i] = Backtick /\ s[i + 1] = Backtick /\ s[i + 2] = Backtick THEN i
  ELSE FenceFrom(s, i + 1)

\* first index >= i that holds no whitespace (Len(s) + 1 when none)
RECURSIVE SkipSpace(_, _)
SkipSpace(s, i) ==
  IF i <= Len(s) /\ IsSpace(s[i]) THEN SkipSpace(s, i + 1) ELSE i

\* first index >= i that does not hold ch
RECURSIVE SkipChar(_, _, _)
SkipChar(s, i, ch) ==
  IF i <= Len(s) /\ s[i] = ch THEN SkipChar(s, i + 1, ch) ELSE i

\* .replace(/'''[\s\S]*?'''/g, '[code]'), ''' standing for three grave accents
RECURSIVE ReplaceCodeBlocks(_, _)
ReplaceCodeBlocks(s, i) ==
  IF i > Len(s) THEN <<>>
  ELSE LET j == IF FenceFrom(s, i) = i THEN FenceFrom(s, i + 3) ELSE 0
       IN IF j # 0
          THEN <<"[", "c", "o", "d", "e", "]">> \o ReplaceCodeBlocks(s, j + 3)
          ELSE <<s[i]>> \o ReplaceCodeBlocks(s, i + 1)

\* .replace(/'([^']+)'/g, '$1'), ' standing for the grave accent, and .replace(/\*([^*]+)\*/g, '$1'):
\* a delimiter, at least one other character, the delimiter
RECURSIVE StripPair(_, _, _)
StripPair(s, i, d) ==
  IF i > Len(s) THEN <<>>
  ELSE LET j == IF s[i] = d THEN IndexFrom(s, i + 1, d) ELSE 0
       IN IF j > i + 1
          THEN SubSeq(s, i + 1, j - 1) \o StripPair(s, j + 1, d)
          ELSE <<s[i]>> \o StripPair(s, i + 1, d)

\* .replace(/\*\*([^*]+)\*\*/g, '$1')
RECURSIVE StripBold(_, _)
StripBold(s, i) ==
  IF i > Len(s) THEN <<>>
  ELSE LET j == IF s[i] = "*" /\ i + 1 <= Len(s) /\ s[i + 1] = "*"
                THEN IndexFrom(s, i + 2, "*") ELSE 0
       IN IF j > i + 2 /\ j + 1 <= Len(s) /\ s[j + 1] = "*"
          THEN SubSeq(s, i + 2, j - 1) \o StripBold(s, j + 2)
          ELSE <<s[i]>> \o StripBold(s, i + 1)

\* .replace(/\[([^\]]+)\]\([^)]+\)/g, '$1')
RECURSIVE StripLinks(_, _)
StripLinks(s, i) ==
  IF i > Len(s) THEN <<>>
  ELSE LET j == IF s[i] = "[" THEN IndexFrom(s, i + 1, "]") ELSE 0
           k == IF j > i + 1 /\ j + 1 <= Len(s) /\ s[j + 1] = "("
                THEN IndexFrom(s, j + 2, ")") ELSE 0
       IN IF k > j + 2 /\ j > i + 1
          THEN SubSeq(s, i + 1, j - 1) \o StripLinks(s, k + 1)
          ELSE <<s[i]>> \o StripLinks(s, i + 1)

\* .replace(/#+\s*/g, '')
RECURSIVE StripHeaders(_, _)
StripHeaders(s, i) ==
  IF i > Len(s) THEN <<>>
  ELSE IF s[i] = "#" THEN StripHeaders(s, SkipSpace(s, SkipChar(s, i, "#")))
  ELSE <<s[i]>> \o StripHeaders(s, i + 1)

\* .replace(/>\s*/g, '') with marks = {">"};
\* .replace(/[-*+]\s*/g, '') with marks = {"-", "*", "+"}
RECURSIVE StripMarkers(_, _, _)
StripMarkers(s, i, marks) ==
  IF i > Len(s) THEN <<>>
  ELSE IF s[i] \in marks THEN StripMarkers(s, SkipSpace(s, i + 1), marks)
  ELSE <<s[i]>> \o StripMarkers(s, i + 1, marks)

\* .replace(/\n+/g, ' ')
RECURSIVE ReplaceNewlines(_, _)
ReplaceNewlines(s, i) ==
  IF i > Len(s) THEN <<>>
  ELSE IF s[i] = "\n" THEN <<" ">> \o ReplaceNewlines(s, SkipChar(s, i, "\n"))
  ELSE <<s[i]>> \o ReplaceNewlines(s, i + 1)

extractPlainText(markdown) ==
  IF markdown = <<>> THEN <<>>
  ELSE LET a == ReplaceCodeBlocks(markdown, 1)
           b == StripPair(a, 1, Backtick)
           c == StripBold(b, 1)
           d == StripPair(c, 1, "*")
           e == StripLinks(d, 1)
           f == StripHeaders(e, 1)
           g == StripMarkers(f, 1, {">"})
           h == StripMarkers(g, 1, {"-", "*", "+"})
       IN Trim(ReplaceNewlines(h, 1))

\* s.split(/\s+/): the pieces between the maximal runs of whitespace
RECURSIVE SplitWords(_, _, _)
SplitWords(s, i, word) ==
  IF i > Len(s) THEN <<word>>
  ELSE IF IsSpace(s[i]) THEN <<word>> \o SplitWords(s, SkipSpace(s, i), <<>>)
  ELSE SplitWords(s, i + 1, Append(word, s[i]))

\* words.join(' ')
RECURSIVE JoinWords(_)
JoinWords(words) ==
  IF words = <<>> THEN <<>>
  ELSE IF Len(words) = 1 THEN words[1]
  ELSE words[1] \o <<" ">> \o JoinWords(Tail(words))

Ellipsis == <<".", ".", ".">>
TitleWords == 5
TitleChars == 50

generateConversationTitle(content) ==
  LET plainText == extractPlainText(content)
      words == SplitWords(Trim(plainText), 1, <<>>)
  IN IF Len(words) <= TitleWords
     THEN IF Len(plainText) > TitleChars
          THEN SubSeq(plainText, 1, TitleChars) \o Ellipsis
          ELSE plainText
     ELSE JoinWords(SubSeq(words, 1, TitleWords)) \o Ellipsis

\* the words that first messages are made of: a short one, a long one and
\* one in bold
MessageWords ==
  {<<"a", "b">>,
   <<"x", "x", "x", "x", "x", "x", "x", "x", "x", "x", "x", "x">>,
   <<"*", "*", "b", "*", "*">>}

\* the first messages: one to MaxWords words with a space between them
FirstMessages ==
  {JoinWords(words) :
     words \in UNION {[1..n -> MessageWords] : n \in 1..MaxWords}}

NoTitle == <<"undefined">>

(***************************************************************************)
(* State.                                                                  *)
(***************************************************************************)
VARIABLES
  conversations,  \* rows of the conversations table
  messages,       \* rows of the messages table, in rowid order
  nextConvId,     \* the AUTOINCREMENT sequence of the conversations table
  now,            \* CURRENT_TIMESTAMP, in seconds
  req,            \* per request slot: the handler's locals, response and position
  accepted,       \* requests received so far
  files,          \* the files under data/users: path, bytes and birthtime
  call,           \* per slot: a call of the file routes, its locals and answer
  calls,          \* calls of the file routes received so far
  issued,         \* the file metadata that responses have carried to clients
  users,          \* rows of the users table
  rate_limit_log, \* the rate_limit_log table: the bag of its rows
  pass,           \* per slot: a request inside rateLimitMiddleware
  user_sessions,  \* rows of the user_sessions table
  session,        \* per browser: the express session, req.session
  login,          \* per slot: a request of POST /login
  logins,         \* requests of POST /login received so far
  server,         \* the server process: the promise of initializeDatabase,
                  \* whether it listens, how it exited
  db,             \* the sqlite3 connection: statements queued, tables
  firstMessage    \* the first message of a conversation and the title
                  \* generated from it

chatVars == <<conversations, messages, nextConvId, req, accepted>>
storageVars == <<files, call, calls, issued>>
limiterVars == <<rate_limit_log, pass>>
loginVars == <<user_sessions, session, login, logins>>
startupVars == <<server, db>>
vars == <<chatVars, now, storageVars, users, limiterVars, loginVars, startupVars,
          firstMessage>>
store == <<conversations, messages, nextConvId>>
\* what the chat handlers and conversation routes never touch
notChat == <<storageVars, users, limiterVars, loginVars, startupVars, firstMessage>>
\* what the storage and images modules never touch
notStorage == <<chatVars, users, limiterVars, loginVars, startupVars, firstMessage>>
\* what rateLimitMiddleware never touches
notLimiter == <<chatVars, storageVars, loginVars, startupVars, firstMessage>>
\* what POST /login never touches
notLogin == <<chatVars, storageVars, limiterVars, startupVars, firstMessage>>

ConvIds == 1..MaxConvs

Min(a, b) == IF a < b THEN a ELSE b

\* reverse of a sequence (Array.prototype.reverse)
Reverse(s) == [i \in 1..Len(s) |-> s[Len(s) + 1 - i]]

(***************************************************************************)
(* The message store (src/src/database/index.js).  The connection never    *)
(* issues PRAGMA foreign_keys = ON, so the FOREIGN KEY clauses of the      *)
(* schema are not enforced.                                                *)
(***************************************************************************)
\* INSERT INTO conversations (user_id, title): the rows after the insert
conversations_create(convs, id, userId, title, t) ==
  convs \cup {[id |-> id, user_id |-> userId, title |-> title,
               created_at |-> t, updated_at |-> t]}

\* UPDATE conversations SET title = ?, updated_at = CURRENT_TIMESTAMP
\*   WHERE id = ? AND user_id = ?
conversations_updateTitle(convs, conversationId, userId, title, t) ==
  {IF c.id = conversationId /\ c.user_id = userId
   THEN [c EXCEPT !.title = title, !.updated_at = t] ELSE c : c \in convs}

\* UPDATE conversations SET updated_at = CURRENT_TIMESTAMP WHERE id = ?
conversations_updateTimestamp(convs, conversationId, t) ==
  {IF c.id = conversationId THEN [c EXCEPT !.updated_at = t] ELSE c : c \in convs}

\* DELETE FROM conversations WHERE id = ? AND user_id = ?
conversations_delete(convs, conversationId, userId) ==
  {c \in convs : ~(c.id = conversationId /\ c.user_id = userId)}

\* this.changes >= 0: true of every statement that ran
ChangesAlways(convs, conversationId, userId) == TRUE

\* this.changes > 0 of an UPDATE or DELETE with WHERE id = ? AND user_id = ?
Changes(convs, conversationId, userId) ==
  \E c \in convs : c.id = conversationId /\ c.user_id = userId

\* INSERT INTO messages (conversation_id, role, content, model)
messages_save(msgs, conversationId, role, content, model, t) ==
  Append(msgs, [id |-> Len(msgs) + 1, conversation_id |-> conversationId,
                role |-> role, content |-> content, model |-> model,
                created_at |-> t])

\* the rows of a set in every order ORDER BY created_at DESC allows: rows
\* of equal created_at come in any order
RECURSIVE OrderDesc(_)
OrderDesc(S) ==
  IF S = {} THEN {<<>>}
  ELSE UNION {{<<m>> \o rest : rest \in OrderDesc(S \ {m})} :
                m \in {x \in S : \A y \in S : y.created_at <= x.created_at}}

\* the same for ORDER BY created_at ASC
RECURSIVE OrderAsc(_)
OrderAsc(S) ==
  IF S = {} THEN {<<>>}
  ELSE UNION {{<<m>> \o rest : rest \in OrderAsc(S \ {m})} :
                m \in {x \in S : \A y \in S : x.created_at <= y.created_at}}

Rows(msgs) == {msgs[i] : i \in 1..Len(msgs)}

\* the query without AND c.user_id = ?
messages_findByConversationAnyUser(msgs, convs, conversationId, userId) ==
  OrderAsc({m \in Rows(msgs) :
              /\ m.conversation_id = conversationId
              /\ \E c \in convs : c.id = m.conversation_id})

\* SELECT m.* FROM messages m JOIN conversations c ON m.conversation_id = c.id
\*   WHERE m.conversation_id = ? AND c.user_id = ? ORDER BY m.created_at ASC:
\* the results the query may give
messages_findByConversation(msgs, convs, conversationId, userId) ==
  OrderAsc({m \in Rows(msgs) :
              /\ m.conversation_id = conversationId
              /\ \E c \in convs : c.id = m.conversation_id /\ c.user_id = userId})

\* SELECT role, content FROM messages WHERE conversation_id = ?
\*   ORDER BY created_at DESC LIMIT ?: the row sequences the query may give
ContextRows(msgs, conversationId) ==
  {SubSeq(o, 1, Min(CONTEXT_WINDOW_MESSAGES, Len(o))) :
     o \in OrderDesc({m \in Rows(msgs) : m.conversation_id = conversationId})}

SystemMessage == [role |-> "system", content |-> SystemText]

\* the callback with rows.length > windowSize as the test
BuildContextGreater(rows) ==
  LET chrono == Reverse(rows)
      msgs == [i \in 1..Len(chrono) |->
                 [role |-> chrono[i].role, content |-> chrono[i].content]]
  IN IF Len(rows) > CONTEXT_WINDOW_MESSAGES THEN <<SystemMessage>> \o msgs ELSE msgs

\* the callback of getConversationContext: rows.reverse().map(...), then
\* the system message in front when rows.length equals the window
BuildContext(rows) ==
  LET chrono == Reverse(rows)
      msgs == [i \in 1..Len(chrono) |->
                 [role |-> chrono[i].role, content |-> chrono[i].content]]
  IN IF Len(rows) = CONTEXT_WINDOW_MESSAGES THEN <<SystemMessage>> \o msgs ELSE msgs

\* the values getConversationContext may resolve to
messages_getConversationContext(msgs, conversationId) ==
  {BuildContext(rows) : rows \in ContextRows(msgs, conversationId)}

(***************************************************************************)
(* The chat handlers handleChat and handleChatStream (llm module).         *)
(***************************************************************************)
Absent == <<>>

\* a JSON response body; an absent field holds Absent, NoModel or NoId
Json(error, response, model, conversationId) ==
  [error |-> error, response |-> response, model |-> model,
   conversationId |-> conversationId]

\* a server-sent event written by res.write
Event(type, content, model, conversationId) ==
  [type |-> type, content |-> content, model |-> model,
   conversationId |-> conversationId]

IdleReq ==
  [pc |-> "idle", handler |-> "none", user |-> 0, message |-> <<>>,
   conversationId |-> NoId, currentConversationId |-> NoId, conversationHistory |-> <<>>,
   rows |-> <<>>, assistantResponse |-> <<>>, parts |-> 0, error |-> "none",
   status |-> 0, response |-> Json(Absent, Absent, NoModel, NoId),
   events |-> <<>>, ended |-> FALSE, upstream |-> <<>>, saved |-> <<>>,
   result |-> "none", list |-> <<>>]

\* the test without trim(): a whitespace-only message passes
EmptyMessageNoTrim(body) ==
  \/ body.message = Undefined
  \/ body.message = <<>>

\* !message || message.trim().length === 0
EmptyMessage(body) ==
  \/ body.message = Undefined
  \/ body.message = <<>>
  \/ Len(Trim(body.message)) = 0

\* handleChatStream without its finally block: the catch block writes the
\* error event and the response stays open
CatchWithoutFinally(q, message) ==
  IF q.handler = "chat"
  THEN IF q.currentConversationId # NoId
       THEN [q EXCEPT !.pc = "saveError", !.error = message]
       ELSE [q EXCEPT !.pc = "done", !.error = message, !.status = 200,
                      !.response = Json(Absent, ErrorText \o <<message>>, NoModel,
                                        q.currentConversationId),
                      !.ended = TRUE]
  ELSE [q EXCEPT !.pc = "done", !.error = message,
                 !.events = Append(q.events,
                    Event("error", StreamErrorText \o <<message>>, NoModel, NoId))]

\* the catch block, up to its first await: handleChat goes on to save the
\* error message when it has a conversation id and answers otherwise;
\* handleChatStream writes the error event and ends the response
Catch(q, message) ==
  IF q.handler = "chat"
  THEN IF q.currentConversationId # NoId
       THEN [q EXCEPT !.pc = "saveError", !.error = message]
       ELSE [q EXCEPT !.pc = "done", !.error = message, !.status = 200,
                      !.response = Json(Absent, ErrorText \o <<message>>, NoModel,
                                        q.currentConversationId),
                      !.ended = TRUE]
  ELSE [q EXCEPT !.pc = "done", !.error = message,
                 !.events = Append(q.events,
                    Event("error", StreamErrorText \o <<message>>, NoModel, NoId)),
                 !.ended = TRUE]

\* the end of handleChat's catch block: res.json with the error text
AnswerError(q) ==
  [q EXCEPT !.pc = "done", !.status = 200,
            !.response = Json(Absent, ErrorText \o <<q.error>>, NoModel,
                              q.currentConversationId),
            !.ended = TRUE]

\* a request takes the lowest slot that holds no request in flight
FreeSlot(r) ==
  /\ req[r].pc \in {"idle", "done"}
  /\ \A r2 \in ReqIds : r2 < r => req[r2].pc \notin {"idle", "done"}

\* the request arrives: validation and the code up to the first await
Receive(r, h, u, body) ==
  /\ FreeSlot(r)
  /\ accepted < MaxRequests
  /\ accepted' = accepted + 1
  /\ req' = [req EXCEPT ![r] =
       IF EmptyMessage(body)
       THEN [IdleReq EXCEPT !.pc = "done", !.handler = h, !.user = u,
                            !.message = body.message,
                            !.conversationId = body.conversationId,
                            !.currentConversationId = body.conversationId,
                            !.status = 400,
                            !.response = Json(<<"Message cannot be empty">>, Absent,
                                              NoModel, NoId),
                            !.ended = TRUE]
       ELSE [IdleReq EXCEPT !.pc = IF body.conversationId = NoId
                                   THEN "create" ELSE "saveUser",
                            !.handler = h, !.user = u,
                            !.message = body.message,
                            !.conversationId = body.conversationId,
                            !.currentConversationId = body.conversationId,
                            !.status = IF h = "stream" THEN 200 ELSE 0]]
  /\ UNCHANGED <<conversations, messages, nextConvId, now>>
  /\ UNCHANGED notChat

\* await conversations.create(req.session.userId, title)
CreateConversation(r) ==
  /\ req[r].pc = "create"
  /\ \/ /\ req' = [req EXCEPT ![r] = Catch(req[r], DbError)]
        /\ UNCHANGED <<conversations, nextConvId>>
     \/ /\ nextConvId <= MaxConvs
        /\ req' = [req EXCEPT ![r].pc = "saveUser",
                              ![r].currentConversationId = nextConvId]
        /\ nextConvId' = nextConvId + 1
        /\ conversations' = conversations_create(conversations, nextConvId,
             req[r].user, generateConversationTitle(req[r].message), now)
  /\ UNCHANGED <<messages, now, accepted>>
  /\ UNCHANGED notChat

\* the save not awaited: the handler goes on while the insert is pending
SaveUserMessageNotAwaited(r) ==
  /\ req[r].pc = "saveUser"
  /\ req' = [req EXCEPT ![r].pc = "context"]
  /\ UNCHANGED <<conversations, messages, nextConvId, now, accepted>>
  /\ UNCHANGED notChat

\* await messages.save(currentConversationId, 'user', message)
SaveUserMessage(r) ==
  /\ req[r].pc = "saveUser"
  /\ \/ /\ messages' = messages_save(messages, req[r].currentConversationId,
                                     "user", req[r].message, NoModel, now)
        /\ req' = [req EXCEPT ![r].pc = "context",
                              ![r].saved = Append(@, Len(messages) + 1)]
     \/ /\ req' = [req EXCEPT ![r] = Catch(req[r], DbError)]
        /\ UNCHANGED messages
  /\ UNCHANGED <<conversations, nextConvId, now, accepted>>
  /\ UNCHANGED notChat

\* the read taken under a per-conversation lock: it waits while another
\* request on the same conversation is between its user turn and its answer
GetContextExclusive(r) ==
  /\ req[r].pc = "context"
  /\ \A r2 \in ReqIds \ {r} :
       ~(/\ req[r2].currentConversationId = req[r].currentConversationId
         /\ req[r2].pc \notin {"idle", "done", "create", "saveUser"})
  /\ \/ \E rows \in ContextRows(messages, req[r].currentConversationId) :
          req' = [req EXCEPT ![r].pc = "probe",
                             ![r].rows = [i \in 1..Len(rows) |-> Reverse(rows)[i].id],
                             ![r].conversationHistory = BuildContext(rows)]
     \/ req' = [req EXCEPT ![r] = Catch(req[r], DbError)]
  /\ UNCHANGED <<conversations, messages, nextConvId, now, accepted>>
  /\ UNCHANGED notChat

\* await messages.getConversationContext(currentConversationId)
GetContext(r) ==
  /\ req[r].pc = "context"
  /\ \/ \E rows \in ContextRows(messages, req[r].currentConversationId) :
          req' = [req EXCEPT ![r].pc = "probe",
                             ![r].rows = [i \in 1..Len(rows) |-> Reverse(rows)[i].id],
                             ![r].conversationHistory = BuildContext(rows)]
     \/ req' = [req EXCEPT ![r] = Catch(req[r], DbError)]
  /\ UNCHANGED <<conversations, messages, nextConvId, now, accepted>>
  /\ UNCHANGED notChat

\* await checkOllamaAvailability(): ollama.list() answers or fails; when it
\* answers, handleChatStream writes the start event
CheckOllama(r) ==
  /\ req[r].pc = "probe"
  /\ \E ollamaAvailable \in BOOLEAN :
       req' = [req EXCEPT
         ![r].upstream = Append(@, "list"),
         ![r].pc = IF ollamaAvailable THEN "chat" ELSE "saveUnavailable",
         ![r].events = IF ollamaAvailable /\ req[r].handler = "stream"
                       THEN Append(@, Event("start", Absent, LLM_MODEL,
                                            req[r].currentConversationId))
                       ELSE @]
  /\ UNCHANGED <<conversations, messages, nextConvId, now, accepted>>
  /\ UNCHANGED notChat

\* await messages.save(currentConversationId, 'assistant', errorMessage)
SaveUnavailable(r) ==
  /\ req[r].pc = "saveUnavailable"
  /\ \/ /\ messages' = messages_save(messages, req[r].currentConversationId,
             "assistant", UnavailableText \o req[r].message, NoModel, now)
        /\ req' = [req EXCEPT ![r].pc = "touchUnavailable",
                              ![r].saved = Append(@, Len(messages) + 1)]
     \/ /\ req' = [req EXCEPT ![r] = Catch(req[r], DbError)]
        /\ UNCHANGED messages
  /\ UNCHANGED <<conversations, nextConvId, now, accepted>>
  /\ UNCHANGED notChat

\* await conversations.updateTimestamp(currentConversationId), then the
\* answer of the unavailable path: res.json, or the event and res.end
TouchUnavailable(r) ==
  /\ req[r].pc = "touchUnavailable"
  /\ \/ /\ conversations' = conversations_updateTimestamp(conversations,
                              req[r].currentConversationId, now)
        /\ req' = [req EXCEPT ![r] =
             IF req[r].handler = "chat"
             THEN [@ EXCEPT !.pc = "done", !.status = 200, !.ended = TRUE,
                            !.response = Json(Absent,
                              UnavailableText \o req[r].message, NoModel,
                              req[r].currentConversationId)]
             ELSE [@ EXCEPT !.pc = "done", !.ended = TRUE,
                            !.events = Append(@, Event("error",
                              UnavailableText \o req[r].message, NoModel,
                              req[r].currentConversationId))]]
     \/ /\ req' = [req EXCEPT ![r] = Catch(req[r], DbError)]
        /\ UNCHANGED conversations
  /\ UNCHANGED <<messages, nextConvId, now, accepted>>
  /\ UNCHANGED notChat

\* await ollama.chat({model, messages: conversationHistory, ...})
OllamaChat(r) ==
  /\ req[r].pc = "chat"
  /\ \/ /\ req[r].handler = "chat"
        /\ \E aiResponse \in AiResponses :
             req' = [req EXCEPT ![r].upstream = Append(@, "chat"),
                                ![r].assistantResponse = aiResponse,
                                ![r].pc = "saveAssistant"]
     \/ /\ req[r].handler = "stream"
        /\ req' = [req EXCEPT ![r].upstream = Append(@, "chat"),
                              ![r].pc = "streaming"]
     \/ req' = [req EXCEPT ![r] =
                  Catch([req[r] EXCEPT !.upstream = Append(@, "chat")], UpstreamError)]
  /\ UNCHANGED <<conversations, messages, nextConvId, now, accepted>>
  /\ UNCHANGED notChat

\* one turn of for await (const part of response): a part, the end of the
\* stream or its failure
StreamPart(r) ==
  /\ req[r].pc = "streaming"
  /\ \/ /\ req[r].parts < MaxChunks
        /\ \E content \in Chunks :
             req' = [req EXCEPT
               ![r].parts = @ + 1,
               ![r].assistantResponse = IF content # <<>> THEN @ \o content ELSE @,
               ![r].events = IF content # <<>>
                             THEN Append(@, Event("content", content, NoModel, NoId))
                             ELSE @]
     \/ req' = [req EXCEPT ![r].pc = "saveAssistant"]
     \/ req' = [req EXCEPT ![r] = Catch(req[r], UpstreamError)]
  /\ UNCHANGED <<conversations, messages, nextConvId, now, accepted>>
  /\ UNCHANGED notChat

\* the save under the conversation id of the request body instead of
\* currentConversationId
SaveAssistantToRequestId(r) ==
  /\ req[r].pc = "saveAssistant"
  /\ \/ /\ messages' = messages_save(messages, req[r].conversationId,
             "assistant", req[r].assistantResponse, LLM_MODEL, now)
        /\ req' = [req EXCEPT ![r].pc = "touchAssistant",
                              ![r].saved = Append(@, Len(messages) + 1)]
     \/ /\ req' = [req EXCEPT ![r] = Catch(req[r], DbError)]
        /\ UNCHANGED messages
  /\ UNCHANGED <<conversations, nextConvId, now, accepted>>
  /\ UNCHANGED notChat

\* await messages.save(currentConversationId, 'assistant', ..., config.LLM_MODEL)
SaveAssistant(r) ==
  /\ req[r].pc = "saveAssistant"
  /\ \/ /\ messages' = messages_save(messages, req[r].currentConversationId,
             "assistant", req[r].assistantResponse, LLM_MODEL, now)
        /\ req' = [req EXCEPT ![r].pc = "touchAssistant",
                              ![r].saved = Append(@, Len(messages) + 1)]
     \/ /\ req' = [req EXCEPT ![r] = Catch(req[r], DbError)]
        /\ UNCHANGED messages
  /\ UNCHANGED <<conversations, nextConvId, now, accepted>>
  /\ UNCHANGED notChat

\* the update not awaited: the answer or the done event goes out while the
\* UPDATE is still pending
TouchAssistantNotAwaited(r) ==
  /\ req[r].pc = "touchAssistant"
  /\ req' = [req EXCEPT ![r] =
       IF req[r].handler = "chat"
       THEN [@ EXCEPT !.pc = "done", !.status = 200, !.ended = TRUE,
                      !.response = Json(Absent, req[r].assistantResponse,
                        LLM_MODEL, req[r].currentConversationId)]
       ELSE [@ EXCEPT !.pc = "done", !.ended = TRUE,
                      !.events = Append(@, Event("done", Absent, NoModel,
                        req[r].currentConversationId))]]
  /\ UNCHANGED <<conversations, messages, nextConvId, now, accepted>>
  /\ UNCHANGED notChat

\* await conversations.updateTimestamp(currentConversationId), then
\* res.json, or the done event and (finally) res.end
TouchAssistant(r) ==
  /\ req[r].pc = "touchAssistant"
  /\ \/ /\ conversations' = conversations_updateTimestamp(conversations,
                              req[r].currentConversationId, now)
        /\ req' = [req EXCEPT ![r] =
             IF req[r].handler = "chat"
             THEN [@ EXCEPT !.pc = "done", !.status = 200, !.ended = TRUE,
                            !.response = Json(Absent, req[r].assistantResponse,
                              LLM_MODEL, req[r].currentConversationId)]
             ELSE [@ EXCEPT !.pc = "done", !.ended = TRUE,
                            !.events = Append(@, Event("done", Absent, NoModel,
                              req[r].currentConversationId))]]
     \/ /\ req' = [req EXCEPT ![r] = Catch(req[r], DbError)]
        /\ UNCHANGED conversations
  /\ UNCHANGED <<messages, nextConvId, now, accepted>>
  /\ UNCHANGED notChat

\* handleChat's catch block: await messages.save(currentConversationId,
\* 'assistant', errorMessage); a failure is logged and the answer follows
SaveError(r) ==
  /\ req[r].pc = "saveError"
  /\ \/ /\ messages' = messages_save(messages, req[r].currentConversationId,
             "assistant", ErrorText \o <<req[r].error>>, NoModel, now)
        /\ req' = [req EXCEPT ![r].pc = "touchError",
                              ![r].saved = Append(@, Len(messages) + 1)]
     \/ /\ req' = [req EXCEPT ![r] = AnswerError(req[r])]
        /\ UNCHANGED messages
  /\ UNCHANGED <<conversations, nextConvId, now, accepted>>
  /\ UNCHANGED notChat

\* handleChat's catch block: await conversations.updateTimestamp(...), then
\* res.json with the error text, whether the update succeeded or failed
TouchError(r) ==
  /\ req[r].pc = "touchError"
  /\ \/ conversations' = conversations_updateTimestamp(conversations,
                           req[r].currentConversationId, now)
     \/ UNCHANGED conversations
  /\ req' = [req EXCEPT ![r] = AnswerError(req[r])]
  /\ UNCHANGED <<messages, nextConvId, now, accepted>>
  /\ UNCHANGED notChat

(***************************************************************************)
(* The conversation routes (src/src/routes/conversations.js).  Each runs   *)
(* one statement and answers; a rejected statement is answered 500.        *)
(***************************************************************************)
\* the slot of a route request that has been answered
Answered(op, u, id, result, status, list) ==
  [IdleReq EXCEPT !.pc = "done", !.handler = op, !.user = u,
                  !.currentConversationId = id, !.result = result,
                  !.status = status, !.list = list, !.ended = TRUE]

\* router.get('/conversations/:id/messages')
GetMessages(r, u, id) ==
  /\ FreeSlot(r)
  /\ accepted < MaxCalls
  /\ accepted' = accepted + 1
  /\ \/ \E rows \in messages_findByConversation(messages, conversations, id, u) :
          req' = [req EXCEPT ![r] = Answered("messages", u, id, "rows", 200, rows)]
     \/ req' = [req EXCEPT ![r] = Answered("messages", u, id, "rejected", 500, <<>>)]
  /\ UNCHANGED <<conversations, messages, nextConvId, now>>
  /\ UNCHANGED notChat

\* router.put('/conversations/:id/title')
PutTitle(r, u, id, title) ==
  /\ FreeSlot(r)
  /\ accepted < MaxCalls
  /\ accepted' = accepted + 1
  /\ IF title = <<>> \/ Len(Trim(title)) = 0
     THEN /\ req' = [req EXCEPT ![r] = Answered("title", u, id, "none", 400, <<>>)]
          /\ UNCHANGED conversations
     ELSE \/ /\ conversations' = conversations_updateTitle(conversations, id, u,
                                                           Trim(title), now)
             /\ req' = [req EXCEPT ![r] =
                  IF Changes(conversations, id, u)
                  THEN Answered("title", u, id, "true", 200, <<>>)
                  ELSE Answered("title", u, id, "false", 404, <<>>)]
          \/ /\ req' = [req EXCEPT ![r] = Answered("title", u, id, "rejected", 500, <<>>)]
             /\ UNCHANGED conversations
  /\ UNCHANGED <<messages, nextConvId, now>>
  /\ UNCHANGED notChat

\* router.delete('/conversations/:id')
DeleteConversation(r, u, id) ==
  /\ FreeSlot(r)
  /\ accepted < MaxCalls
  /\ accepted' = accepted + 1
  /\ \/ /\ conversations' = conversations_delete(conversations, id, u)
        /\ req' = [req EXCEPT ![r] =
             IF Changes(conversations, id, u)
             THEN Answered("delete", u, id, "true", 200, <<>>)
             ELSE Answered("delete", u, id, "false", 404, <<>>)]
     \/ /\ req' = [req EXCEPT ![r] = Answered("delete", u, id, "rejected", 500, <<>>)]
        /\ UNCHANGED conversations
  /\ UNCHANGED <<messages, nextConvId, now>>
  /\ UNCHANGED notChat

\* a second passes: CURRENT_TIMESTAMP advances
Tick ==
  /\ now < MaxTime
  /\ now' = now + 1
  /\ UNCHANGED <<conversations, messages, nextConvId, req, accepted>>
  /\ UNCHANGED notChat

(***************************************************************************)
(* Blob storage (src/unnamed/part_003, the storage module) and image       *)
(* generation (src/unnamed/part_004, the images module).  A stored file is *)
(* a path under data/users/<userId>/<category>/ with its bytes; a file     *)
(* name and an id are texts like every other string of the model.          *)
(***************************************************************************)
\* letters of the alphabet of the model, and String.prototype.toLowerCase
UpperCase == {"A", "C"}
LowerCase == {"a", "b", "c", "e", "g", "i", "m", "t", "x"}
Digits == {"0", "1", "2", "3", "4", "5", "6", "7", "8", "9"}
ToLowerCase(s) ==
  [i \in 1..Len(s) |-> IF s[i] = "A" THEN "a" ELSE IF s[i] = "C" THEN "c" ELSE s[i]]

\* prompts sent to POST /images/generate
Prompts == {<<" ">>, <<"A", " ", "C", "a", "t", "!">>, <<"a", "b">>}
\* uploaded documents: file.originalname and file.buffer
Uploads == {[originalname |-> <<"a", ".", "t", "x", "t">>, buffer |-> <<"x">>]}
\* the values crypto.randomBytes(4).toString('hex') is drawn from
RandomHex == {<<"00c0ffee">>, <<"deadbeef">>}
\* the values crypto.randomUUID() is drawn from
RandomUUIDs == {<<"3b241101-e2bb-4255-8caf-4136c566a962">>,
                <<"9a1e5c3f-0d47-4b8a-b6a1-5f2d7c1e8b90">>}
\* the images the three stages produce
OllamaImage == <<"ollama">>
StableDiffusionImage == <<"sd">>
EnhancedPlaceholder == <<"enhanced">>
PlaceholderImage == <<"simple">>
Png == <<".", "p", "n", "g">>

\* s.replace(/[^\w\s]/g, ''): characters other than letters, digits, "_"
\* and whitespace are removed
RemoveSpecial(s) ==
  SelectSeq(s, LAMBDA ch : ch \in UpperCase \cup LowerCase \cup Digits \cup {"_"}
                              \/ IsSpace(ch))

\* words.join('_')
RECURSIVE JoinUnderscore(_)
JoinUnderscore(words) ==
  IF words = <<>> THEN <<>>
  ELSE IF Len(words) = 1 THEN words[1]
  ELSE words[1] \o <<"_">> \o JoinUnderscore(Tail(words))

PromptWords == 3
ShortWord == 2

\* generatePromptBasedFilename(prompt), Date.now() being t
generatePromptBasedFilename(prompt, t) ==
  LET split == SplitWords(RemoveSpecial(ToLowerCase(prompt)), 1, <<>>)
      long == SelectSeq(split, LAMBDA word : Len(word) > ShortWord)
      words == SubSeq(long, 1, Min(PromptWords, Len(long)))
      baseFilename == IF JoinUnderscore(words) # <<>>
                      THEN JoinUnderscore(words) ELSE <<"i", "m", "a", "g", "e">>
  IN baseFilename \o <<"_", ToString(t)>>

\* originalName.replace(/[^a-zA-Z0-9]/g, '_').toLowerCase()
Sanitize(name) ==
  ToLowerCase([i \in 1..Len(name) |->
                 IF \/ name[i] \in UpperCase \cup LowerCase \cup Digits
                    \/ name[i] \in {ToString(t) : t \in 0..MaxTime}
                 THEN name[i] ELSE "_"])

\* path.extname: from the last "." to the end, empty when there is no "."
\* or the only one starts the name
Extname(name) ==
  LET dots == {i \in 1..Len(name) : name[i] = "."}
  IN IF dots = {} THEN <<>>
     ELSE LET last == CHOOSE i \in dots : \A j \in dots : j <= i
          IN IF last = 1 THEN <<>> ELSE SubSeq(name, last, Len(name))

\* the extension saveFile derives from fileType when the name has none
TypeExtension(fileType) ==
  IF fileType = "image/png" THEN Png
  ELSE IF fileType = "image/jpeg" THEN <<".", "j", "p", "g">>
  ELSE IF fileType = "application/pdf" THEN <<".", "p", "d", "f">>
  ELSE IF fileType = "text/plain" THEN <<".", "t", "x", "t">>
  ELSE <<>>

\* generateFileName(originalName, extension), Date.now() being t and
\* crypto.randomBytes(4).toString('hex') being random
generateFileName(originalName, extension, t, random) ==
  LET baseName == IF originalName # <<>> THEN Sanitize(originalName)
                  ELSE <<"f", "i", "l", "e">>
  IN <<ToString(t), "_">> \o random \o <<"_">> \o baseName \o extension

\* crypto.createHash('md5').update(text).digest('hex'): a digest stands for
\* the text it was computed from
Md5(text) == [alg |-> "md5", of |-> text]
\* an id made by crypto.randomUUID(): no digest is spelled like a UUID
Uuid(text) == [alg |-> "uuid", of |-> text]
NoFileId == [alg |-> "none", of |-> <<>>]

Categories == {"images", "documents", "artifacts"}

\* metadata.id and the rest of what saveFile returns or getUserFiles lists
Metadata(id, fileName, category, size, userId, createdAt) ==
  [id |-> id, fileName |-> fileName, category |-> category, size |-> size,
   userId |-> userId, createdAt |-> createdAt]
NoMetadata == Metadata(NoFileId, <<>>, "none", 0, 0, 0)

\* fs.writeFile(filePath, fileBuffer): the file is created, or its bytes
\* replaced when the path exists
WriteFileTo(fs, userId, category, fileName, buffer, t) ==
  LET there == {f \in fs : /\ f.userId = userId /\ f.category = category
                           /\ f.fileName = fileName}
  IN (fs \ there) \cup
       {[userId |-> userId, category |-> category, fileName |-> fileName,
         content |-> buffer,
         birthtime |-> IF there = {} THEN t
                       ELSE (CHOOSE f \in there : TRUE).birthtime]}

\* files.sort((a, b) => new Date(b.createdAt) - new Date(a.createdAt)):
\* entries of equal createdAt stay in the order readdir gave them, which is
\* any order
RECURSIVE SortByCreatedAtDesc(_)
SortByCreatedAtDesc(S) ==
  IF S = {} THEN {<<>>}
  ELSE UNION {{<<m>> \o rest : rest \in SortByCreatedAtDesc(S \ {m})} :
                m \in {x \in S : \A y \in S : y.createdAt <= x.createdAt}}

\* the entry getUserFiles builds for a file, with the id it computes
ListedEntry(f) ==
  Metadata(Md5(<<ToString(f.userId), "_">> \o f.fileName), f.fileName,
           f.category, Len(f.content), f.userId, f.birthtime)

\* getUserFiles(userId): the listings it may resolve to, readable being the
\* categories whose readdir and stat calls succeeded
getUserFiles(fs, userId, readable) ==
  SortByCreatedAtDesc({ListedEntry(f) :
     f \in {g \in fs : g.userId = userId /\ g.category \in readable}})

\* userFiles.find(f => f.id === fileId): the first match, or none
Find(userFiles, fileId) ==
  LET hits == {i \in 1..Len(userFiles) : userFiles[i].id = fileId}
  IN IF hits = {} THEN NoMetadata
     ELSE userFiles[CHOOSE i \in hits : \A j \in hits : i <= j]

IdleCall ==
  [pc |-> "idle", op |-> "none", userId |-> 0, prompt |-> <<>>,
   imageBuffer |-> Absent, usedModel |-> "auto", stages |-> <<>>,
   fileBuffer |-> <<>>, originalName |-> <<>>, fileType |-> "none",
   category |-> "none", fileName |-> <<>>, fileId |-> NoFileId,
   file |-> NoMetadata, content |-> <<>>, userFiles |-> <<>>,
   metadata |-> NoMetadata, caught |-> <<>>, error |-> <<>>, status |-> 0]

\* a call takes the lowest slot that holds no call in flight
FreeCall(r) ==
  /\ call[r].pc \in {"idle", "done"}
  /\ \A r2 \in ReqIds : r2 < r => call[r2].pc \notin {"idle", "done"}

\* the call is answered with an error
Rejected(q, caught, error, status) ==
  [q EXCEPT !.pc = "done", !.caught = caught, !.error = error, !.status = status]

\* saveFile's catch block, and what its caller answers: generateImage
\* throws 'Failed to generate image' (500 with that text), the upload route
\* answers 500 'Failed to upload files'
SaveFailed(q) ==
  IF q.op = "generateImage"
  THEN Rejected(q, <<"Failed to save file">>, <<"Failed to generate image">>, 500)
  ELSE Rejected(q, <<"Failed to save file">>, <<"Failed to upload files">>, 500)

\* generateImage has its image: generatePromptBasedFilename(prompt), then
\* saveFile(userId, imageBuffer, promptFilename, 'image/png', 'images') up
\* to its first await
ToSave(q, buffer, model, stage, t) ==
  [q EXCEPT !.pc = "mkdir", !.imageBuffer = buffer, !.usedModel = model,
            !.stages = Append(@, [stage |-> stage, image |-> buffer]),
            !.fileBuffer = buffer,
            !.originalName = generatePromptBasedFilename(q.prompt, t),
            !.fileType = "image/png", !.category = "images"]

\* router.post('/images/generate') up to the first await of generateImage
PostImagesGenerate(r, u, prompt) ==
  /\ FreeCall(r)
  /\ calls < MaxImageCalls
  /\ calls' = calls + 1
  /\ call' = [call EXCEPT ![r] =
       IF prompt = <<>> \/ Len(Trim(prompt)) = 0
       THEN [IdleCall EXCEPT !.pc = "done", !.op = "generateImage", !.userId = u,
                             !.error = <<"Prompt is required">>, !.status = 400]
       ELSE [IdleCall EXCEPT !.pc = "ollama", !.op = "generateImage",
                             !.userId = u, !.prompt = Trim(prompt)]]
  /\ UNCHANGED <<files, issued, now>>
  /\ UNCHANGED notStorage

\* the failure of stage 1 not caught: it reaches the outer catch block
generateWithOllamaUncaught(r) ==
  /\ call[r].pc = "ollama"
  /\ \/ call' = [call EXCEPT ![r] =
          ToSave(call[r], OllamaImage, "ollama", "ollama", now)]
     \/ call' = [call EXCEPT ![r] =
          Rejected([call[r] EXCEPT
                      !.stages = Append(@, [stage |-> "ollama", image |-> Absent])],
                   <<"Ollama generation failed">>,
                   <<"Failed to generate image">>, 500)]
  /\ UNCHANGED <<files, issued, now, calls>>
  /\ UNCHANGED notStorage

\* stage 1, await generateWithOllama(prompt, options): a buffer, or an
\* error that is caught and logged
generateWithOllama(r) ==
  /\ call[r].pc = "ollama"
  /\ \/ call' = [call EXCEPT ![r] =
          ToSave(call[r], OllamaImage, "ollama", "ollama", now)]
     \/ call' = [call EXCEPT
          ![r].pc = "sd",
          ![r].stages = Append(@, [stage |-> "ollama", image |-> Absent])]
  /\ UNCHANGED <<files, issued, now, calls>>
  /\ UNCHANGED notStorage

\* stage 2, if (!imageBuffer) await generateWithStableDiffusion(...)
generateWithStableDiffusion(r) ==
  /\ call[r].pc = "sd"
  /\ \/ call' = [call EXCEPT ![r] =
          ToSave(call[r], StableDiffusionImage, "stable-diffusion-webui", "sd", now)]
     \/ call' = [call EXCEPT
          ![r].pc = "placeholder",
          ![r].stages = Append(@, [stage |-> "sd", image |-> Absent])]
  /\ UNCHANGED <<files, issued, now, calls>>
  /\ UNCHANGED notStorage

\* stage 3, if (!imageBuffer) await generateEnhancedPlaceholder(...), which
\* falls back to generatePlaceholderImage; when that throws too the outer
\* catch block throws 'Failed to generate image'
generateEnhancedPlaceholder(r) ==
  /\ call[r].pc = "placeholder"
  /\ \/ \E buffer \in {EnhancedPlaceholder, PlaceholderImage} :
          call' = [call EXCEPT ![r] =
            ToSave(call[r], buffer, "placeholder", "placeholder", now)]
     \/ call' = [call EXCEPT ![r] =
          Rejected([call[r] EXCEPT
                      !.stages = Append(@, [stage |-> "placeholder", image |-> Absent])],
                   <<"Input buffer contains unsupported image format">>,
                   <<"Failed to generate image">>, 500)]
  /\ UNCHANGED <<files, issued, now, calls>>
  /\ UNCHANGED notStorage

\* router.post('/files/upload') with one document, up to the first await of
\* saveFile(userId, file.buffer, file.originalname, 'text/plain', 'documents')
PostFilesUpload(r, u, file) ==
  /\ FreeCall(r)
  /\ calls < MaxFileCalls
  /\ calls' = calls + 1
  /\ call' = [call EXCEPT ![r] =
       [IdleCall EXCEPT !.pc = "mkdir", !.op = "saveFile", !.userId = u,
                        !.fileBuffer = file.buffer,
                        !.originalName = file.originalname,
                        !.fileType = "text/plain", !.category = "documents"]]
  /\ UNCHANGED <<files, issued, now>>
  /\ UNCHANGED notStorage

\* saveFile: await ensureUserDirectories(userId), whose errors are logged,
\* then the extension and generateFileName(originalName, ext)
ensureUserDirectories(r) ==
  /\ call[r].pc = "mkdir"
  /\ \E random \in RandomHex :
       LET ext == IF Extname(call[r].originalName) # <<>>
                  THEN Extname(call[r].originalName)
                  ELSE TypeExtension(call[r].fileType)
       IN call' = [call EXCEPT
            ![r].pc = "write",
            ![r].fileName = generateFileName(call[r].originalName, ext, now, random)]
  /\ UNCHANGED <<files, issued, now, calls>>
  /\ UNCHANGED notStorage

\* saveFile: await fs.writeFile(filePath, fileBuffer)
WriteFile(r) ==
  /\ call[r].pc = "write"
  /\ \/ /\ files' = WriteFileTo(files, call[r].userId, call[r].category,
                                call[r].fileName, call[r].fileBuffer, now)
        /\ call' = [call EXCEPT ![r].pc = "stat"]
     \/ /\ call' = [call EXCEPT ![r] = SaveFailed(call[r])]
        /\ UNCHANGED files
  /\ UNCHANGED <<issued, now, calls>>
  /\ UNCHANGED notStorage

\* saveFile: await fs.stat(filePath), then the metadata with
\* id: crypto.randomUUID(); the caller answers with it
Stat(r) ==
  /\ call[r].pc = "stat"
  /\ \/ \E f \in files : \E uuid \in RandomUUIDs :
          /\ f.userId = call[r].userId
          /\ f.category = call[r].category
          /\ f.fileName = call[r].fileName
          /\ LET metadata == Metadata(Uuid(uuid), f.fileName, f.category,
                                      Len(f.content), f.userId, now)
             IN /\ call' = [call EXCEPT ![r].pc = "done", ![r].status = 200,
                                        ![r].metadata = metadata]
                /\ issued' = issued \cup {[by |-> "saveFile", entry |-> metadata,
                                           bytes |-> call[r].fileBuffer]}
     \/ /\ call' = [call EXCEPT ![r] = SaveFailed(call[r])]
        /\ UNCHANGED issued
  /\ UNCHANGED <<files, now, calls>>
  /\ UNCHANGED notStorage

\* the ids a client may put in req.params.fileId: the ids that responses
\* have carried, to user u or to another user, and an id of its own making
KnownIds(u) ==
  {i.entry.id : i \in issued} \cup {Md5(<<"n", "o", "n", "e">>)}

\* router.get('/files'): await getUserFiles(req.session.userId, category)
\* with no category given
GetFiles(r, u) ==
  /\ FreeCall(r)
  /\ calls < MaxFileCalls
  /\ calls' = calls + 1
  /\ \E readable \in SUBSET Categories :
       \E userFiles \in getUserFiles(files, u, readable) :
         /\ call' = [call EXCEPT ![r] =
              [IdleCall EXCEPT !.pc = "done", !.op = "getUserFiles", !.userId = u,
                               !.userFiles = userFiles, !.status = 200]]
         /\ issued' = issued \cup
              {[by |-> "getUserFiles", entry |-> userFiles[i], bytes |-> <<>>] :
                 i \in 1..Len(userFiles)}
  /\ UNCHANGED <<files, now>>
  /\ UNCHANGED notStorage

\* router.get('/files/:fileId') and router.delete('/files/:fileId') up to
\* the first await of getFile or deleteFile
FileRequest(r, op, u, fileId) ==
  /\ FreeCall(r)
  /\ calls < MaxFileCalls
  /\ calls' = calls + 1
  /\ call' = [call EXCEPT ![r] =
       [IdleCall EXCEPT !.pc = "find", !.op = op, !.userId = u, !.fileId = fileId]]
  /\ UNCHANGED <<files, issued, now>>
  /\ UNCHANGED notStorage

\* getFile and deleteFile: await getUserFiles(userId), then
\* userFiles.find(f => f.id === fileId); 'File not found' is caught and
\* thrown again as 'Failed to read file' (404) or 'Failed to delete file'
\* (500)
FindFile(r) ==
  /\ call[r].pc = "find"
  /\ \E readable \in SUBSET Categories :
       \E userFiles \in getUserFiles(files, call[r].userId, readable) :
         LET file == Find(userFiles, call[r].fileId)
         IN call' = [call EXCEPT ![r] =
              IF file = NoMetadata
              THEN IF call[r].op = "getFile"
                   THEN Rejected([call[r] EXCEPT !.userFiles = userFiles],
                                 <<"File not found">>, <<"Failed to read file">>, 404)
                   ELSE Rejected([call[r] EXCEPT !.userFiles = userFiles],
                                 <<"File not found">>, <<"Failed to delete file">>, 500)
              ELSE [call[r] EXCEPT !.pc = IF call[r].op = "getFile"
                                          THEN "read" ELSE "unlink",
                                   !.userFiles = userFiles, !.file = file]]
  /\ UNCHANGED <<files, issued, now, calls>>
  /\ UNCHANGED notStorage

\* getFile: await fs.readFile(file.filePath); the route sends the content
ReadFile(r) ==
  /\ call[r].pc = "read"
  /\ \/ \E f \in files :
          /\ f.userId = call[r].userId
          /\ f.category = call[r].file.category
          /\ f.fileName = call[r].file.fileName
          /\ call' = [call EXCEPT ![r].pc = "done", ![r].status = 200,
                                  ![r].content = f.content]
     \/ call' = [call EXCEPT ![r] =
          Rejected(call[r], <<"ENOENT">>, <<"Failed to read file">>, 404)]
  /\ UNCHANGED <<files, issued, now, calls>>
  /\ UNCHANGED notStorage

\* deleteFile: await fs.unlink(file.filePath)
Unlink(r) ==
  /\ call[r].pc = "unlink"
  /\ \/ /\ \E f \in files :
             /\ f.userId = call[r].userId
             /\ f.category = call[r].file.category
             /\ f.fileName = call[r].file.fileName
             /\ files' = files \ {f}
        /\ call' = [call EXCEPT ![r].pc = "done", ![r].status = 200]
     \/ /\ call' = [call EXCEPT ![r] =
             Rejected(call[r], <<"ENOENT">>, <<"Failed to delete file">>, 500)]
        /\ UNCHANGED files
  /\ UNCHANGED <<issued, now, calls>>
  /\ UNCHANGED notStorage

(***************************************************************************)
(* Accounts: the users table after the user creation script has run once   *)
(* for each user of the model.  bcrypt.hash is a salted digest; the model  *)
(* keeps the password inside the digest.                                   *)
(***************************************************************************)
BcryptHash(password) == <<"$2a$10$">> \o password
\* bcrypt.compare(password, hash)
BcryptCompare(password, hash) == BcryptHash(password) = hash

Usernames == [u \in Users |-> IF u = 1 THEN <<"a", "n", "n">> ELSE <<"b", "o", "b">>]
Passwords == [u \in Users |-> IF u = 1 THEN <<"p", "1">> ELSE <<"p", "2">>]

\* the row INSERT INTO users writes for an employer user
users_create(id, username, hashedPassword) ==
  [id |-> id, username |-> username, password |-> hashedPassword,
   user_role |-> "employer", last_ip |-> Absent, last_user_agent |-> Absent,
   request_count |-> 0, last_request_time |-> 0]

\* UPDATE users SET last_ip = ?, last_user_agent = ?, last_request_time =
\*   CURRENT_TIMESTAMP, request_count = request_count + 1 WHERE id = ?
users_updateActivity(rows, userId, ipAddress, userAgent, t) ==
  {IF u.id = userId
   THEN [u EXCEPT !.last_ip = ipAddress, !.last_user_agent = userAgent,
                  !.last_request_time = t, !.request_count = @ + 1]
   ELSE u : u \in rows}

\* SELECT * FROM users WHERE username = ?: the row, or none
users_findByUsername(rows, username) ==
  {u \in rows : u.username = username}

(***************************************************************************)
(* rateLimitMiddleware (src/src/middleware/rateLimiter.js) and the         *)
(* rate_limit_log table.  The table is kept as the number of rows of each  *)
(* content: the row count is all that is read from it.                      *)
(***************************************************************************)
RATE_LIMITS ==
  [super |-> [requests_per_hour |-> 1000, chat_requests_per_hour |-> 500,
              image_requests_per_hour |-> 100, file_uploads_per_hour |-> 50],
   employer |-> [requests_per_hour |-> 100, chat_requests_per_hour |-> 30,
                 image_requests_per_hour |-> 10, file_uploads_per_hour |-> 5]]

\* getRequestCount(userId, 60): the last 60 minutes, in seconds
WindowMinutes == 60
SecondsPerMinute == 60

\* paths of the requests that pass through the middleware
Paths == {<<"/api/chat">>, <<"/login">>}
skipPaths == {<<"/login">>, <<"/register">>, <<"/logout">>, <<"/static">>,
              <<"/api/system-status">>}

\* getEndpointType(path)
getEndpointType(path) ==
  IF path \in {<<"/api/chat">>, <<"/api/chat/stream">>,
              <<"/api/conversations/1/messages">>} THEN "chat"
  ELSE IF path \in {<<"/api/images/generate">>} THEN "image"
  ELSE IF path \in {<<"/api/files">>, <<"/api/files/upload">>} THEN "file"
  ELSE "general"

\* getRateLimit(userRole, endpointType)
getRateLimit(userRole, endpointType) ==
  LET limits == IF userRole = "super" THEN RATE_LIMITS.super ELSE RATE_LIMITS.employer
  IN IF endpointType = "chat" THEN limits.chat_requests_per_hour
     ELSE IF endpointType = "image" THEN limits.image_requests_per_hour
     ELSE IF endpointType = "file" THEN limits.file_uploads_per_hour
     ELSE limits.requests_per_hour

\* a row of rate_limit_log
LogRow(userId, endpoint, t, wasBlocked) ==
  [user_id |-> userId, endpoint |-> endpoint, request_time |-> t,
   was_blocked |-> wasBlocked]

\* INSERT INTO rate_limit_log (user_id, ip_address, endpoint, was_blocked)
rateLimiter_log(rows, userId, endpoint, wasBlocked, t) ==
  rows (+) SetToBag({LogRow(userId, endpoint, t, wasBlocked)})

\* SELECT COUNT FROM rate_limit_log WHERE user_id = ?
\*   AND request_time > datetime('now', '-' || ? || ' minutes')
rateLimiter_getRequestCount(rows, userId, minutes, t) ==
  BagCardinality([row \in {x \in BagToSet(rows) :
                             /\ x.user_id = userId
                             /\ x.request_time > t - minutes * SecondsPerMinute}
                    |-> rows[row]])

IdlePass ==
  [pc |-> "idle", userId |-> 0, userRole |-> "none", path |-> <<>>,
   endpointType |-> "none", requestCount |-> 0, status |-> 0, next |-> FALSE]

\* next(): the request goes on to its handler
CallNext(q) == [q EXCEPT !.pc = "done", !.next = TRUE]

\* the middleware is entered for a request of user u, whom requireAuth has
\* put in req.user; up to the first await
RateLimitReceive(r, u, path) ==
  /\ pass[r].pc \in {"idle", "done"}
  /\ \A r2 \in ReqIds : r2 < r => pass[r2].pc \notin {"idle", "done"}
  /\ BagCardinality(rate_limit_log) < MaxLogRows
  /\ \E user \in users :
       /\ user.id = u
       /\ pass' = [pass EXCEPT ![r] =
            IF path \in skipPaths
            THEN CallNext([IdlePass EXCEPT !.userId = u, !.path = path,
                                           !.userRole = user.user_role])
            ELSE [IdlePass EXCEPT !.pc = "log", !.userId = u, !.path = path,
                                  !.userRole = user.user_role,
                                  !.endpointType = getEndpointType(path)]]
  /\ UNCHANGED <<rate_limit_log, users, now>>
  /\ UNCHANGED notLimiter

\* await rateLimiter.log(userId, ipAddress, req.path, false); a rejection
\* is caught and the request goes on
LogRequest(r) ==
  /\ pass[r].pc = "log"
  /\ \/ /\ rate_limit_log' = rateLimiter_log(rate_limit_log, pass[r].userId,
                                             pass[r].path, FALSE, now)
        /\ pass' = [pass EXCEPT ![r].pc = "activity"]
     \/ /\ pass' = [pass EXCEPT ![r] = CallNext(pass[r])]
        /\ UNCHANGED rate_limit_log
  /\ UNCHANGED <<users, now>>
  /\ UNCHANGED notLimiter

\* await users.updateActivity(userId, ipAddress, req.headers['user-agent'],
\* macAddress)
UpdateActivity(r) ==
  /\ pass[r].pc = "activity"
  /\ \/ /\ users' = users_updateActivity(users, pass[r].userId, <<"10.0.0.1">>,
                                         <<"Mozilla/5.0">>, now)
        /\ pass' = [pass EXCEPT ![r].pc = "count"]
     \/ /\ pass' = [pass EXCEPT ![r] = CallNext(pass[r])]
        /\ UNCHANGED users
  /\ UNCHANGED <<rate_limit_log, now>>
  /\ UNCHANGED notLimiter

\* await rateLimiter.getRequestCount(userId, 60), then
\* if (requestCount >= rateLimit): the headers and next() otherwise
GetRequestCount(r) ==
  /\ pass[r].pc = "count"
  /\ \/ LET requestCount == rateLimiter_getRequestCount(rate_limit_log,
                              pass[r].userId, WindowMinutes, now)
        IN pass' = [pass EXCEPT ![r] =
             IF requestCount >= getRateLimit(pass[r].userRole, pass[r].endpointType)
             THEN [pass[r] EXCEPT !.pc = "logBlocked", !.requestCount = requestCount]
             ELSE CallNext([pass[r] EXCEPT !.requestCount = requestCount])]
     \/ pass' = [pass EXCEPT ![r] = CallNext(pass[r])]
  /\ UNCHANGED <<rate_limit_log, users, now>>
  /\ UNCHANGED notLimiter

\* await rateLimiter.log(userId, ipAddress, req.path, true), then the 429
\* answer; a rejection is caught and the request goes on
LogBlocked(r) ==
  /\ pass[r].pc = "logBlocked"
  /\ \/ /\ rate_limit_log' = rateLimiter_log(rate_limit_log, pass[r].userId,
                                             pass[r].path, TRUE, now)
        /\ pass' = [pass EXCEPT ![r].pc = "done", ![r].status = 429]
     \/ /\ pass' = [pass EXCEPT ![r] = CallNext(pass[r])]
        /\ UNCHANGED rate_limit_log
  /\ UNCHANGED <<users, now>>
  /\ UNCHANGED notLimiter

\* the length of a window goes by between two requests
Elapse ==
  /\ \A r \in ReqIds : pass[r].pc \in {"idle", "done"}
  /\ now < MaxElapsed
  /\ now' = now + WindowMinutes * SecondsPerMinute
  /\ UNCHANGED <<rate_limit_log, users, pass>>
  /\ UNCHANGED notLimiter

(***************************************************************************)
(* Startup: the top level of src/server.js and initializeDatabase           *)
(* (src/src/database/index.js).  The top level runs to its end in one turn: *)
(* initializeDatabase() queues its five CREATE TABLE statements inside      *)
(* db.serialize and returns a pending promise, and app.listen is called     *)
(* right after, with no await between them.                                 *)
(***************************************************************************)
\* the tables of initializeDatabase, in the order of their db.run calls
Tables == <<"users", "conversations", "messages", "user_sessions", "rate_limit_log">>

\* only the last db.run is given a callback (err) => ...
HasCallback(table) == table = "rate_limit_log"

\* the process has not exited
Running == server.exit = "none"
\* the server has been bound to its port and the process runs
Accepting == Running /\ server.listening

\* the server after a startup without failure
Started == [promise |-> "resolved", listening |-> TRUE, exit |-> "none"]
\* the server when the top level of server.js has run
Starting == [promise |-> "pending", listening |-> FALSE, exit |-> "none"]

\* the connection: the CREATE TABLE statements not yet run, the tables that
\* exist, the tables whose creation failed
Connection(queue, tables) == [queue |-> queue, tables |-> tables, failed |-> {}]

\* app.listen(config.PORT, callback): the port is bound
Listen ==
  /\ Running
  /\ ~server.listening
  /\ server' = [server EXCEPT !.listening = TRUE]
  /\ UNCHANGED <<db, users, now, firstMessage>>
  /\ UNCHANGED <<chatVars, storageVars, limiterVars, loginVars>>

\* the next CREATE TABLE IF NOT EXISTS statement of db.serialize runs.  The
\* callback of the last one resolves the promise, or rejects it, and then
\* the catch handler of server.js logs and calls process.exit(1).  The other
\* statements have no callback: sqlite3 emits their error as an 'error'
\* event, nothing listens for it, and the uncaught exception ends the
\* process.
CreateTable ==
  /\ Running
  /\ db.queue # <<>>
  /\ LET table == Head(db.queue)
     IN \/ /\ db' = [db EXCEPT !.queue = Tail(@), !.tables = @ \cup {table}]
           /\ server' = IF HasCallback(table)
                        THEN [server EXCEPT !.promise = "resolved"]
                        ELSE server
        \/ /\ db' = [db EXCEPT !.queue = Tail(@), !.failed = @ \cup {table}]
           /\ server' = IF HasCallback(table)
                        THEN [server EXCEPT !.promise = "rejected",
                                            !.exit = "process.exit(1)"]
                        ELSE [server EXCEPT !.exit = "uncaught exception"]
  /\ UNCHANGED <<users, now, firstMessage>>
  /\ UNCHANGED <<chatVars, storageVars, limiterVars, loginVars>>

(***************************************************************************)
(* Login: app.post('/login') (src/server.js) and loginUser                 *)
(* (src/src/auth/index.js).  The route calls loginUser(username, password) *)
(* with no third argument.  src/src/auth/index.js holds two modules: one   *)
(* whose loginUser takes a third parameter req, which is then undefined,   *)
(* and one whose loginUser takes two parameters.                           *)
(***************************************************************************)
\* the two auth modules, by the number of parameters of loginUser
AuthModules == {"loginUser/3", "loginUser/2"}

\* usernames and passwords of the login form; Undefined is a missing field
LoginNames == {Usernames[u] : u \in Users} \cup {<<"e", "v", "e">>}
LoginPasswords == {Passwords[u] : u \in Users} \cup {<<"x">>, Undefined}
\* browsers, each with its own session cookie
Clients == {1, 2}

\* getClientIP(req): reading req.headers of an undefined req throws
getClientIP(request) ==
  IF request = Undefined THEN <<"TypeError">> ELSE <<"10.0.0.1">>

IdleLogin ==
  [pc |-> "idle", auth |-> "none", client |-> 0, username |-> <<>>,
   password |-> <<>>, request |-> Undefined, user |-> {}, caught |-> <<>>, success |-> FALSE,
   error |-> <<>>, status |-> 0]

\* the result of loginUser is a failure: the route answers 401 with its
\* error
LoginFailed(q, caught, error) ==
  [q EXCEPT !.pc = "done", !.caught = caught, !.success = FALSE,
            !.error = error, !.status = 401]

\* loginUser/2 returns { success: true, user: { id, username } }
LoginSucceeded(q) ==
  [q EXCEPT !.pc = "done", !.success = TRUE, !.status = 200]

\* after the password test: loginUser/3 goes on to the session token and
\* getClientIP(req), which throws because req is undefined, so that the
\* catch block returns 'Database error' and sessions.create and
\* users.updateActivity are not reached; loginUser/2 returns the user
AfterValidPassword(q) ==
  IF q.auth = "loginUser/3"
  THEN LoginFailed(q, getClientIP(q.request), <<"Database error">>)
  ELSE LoginSucceeded(q)

\* the route after loginUser returned: if (result.success) the session
\* gets userId and username
SessionAfter(sess, q) ==
  IF q.success
  THEN [sess EXCEPT ![q.client] =
          [userId |-> (CHOOSE u \in q.user : TRUE).id,
           username |-> (CHOOSE u \in q.user : TRUE).username]]
  ELSE sess

\* app.post('/login') up to the first await of loginUser(username, password)
PostLogin(r, c, username, password) ==
  /\ Accepting
  /\ login[r].pc \in {"idle", "done"}
  /\ \A r2 \in ReqIds : r2 < r => login[r2].pc \notin {"idle", "done"}
  /\ logins < MaxLogins
  /\ logins' = logins + 1
  /\ \E auth \in AuthModules :
       \* one of the two modules is the one that the server has loaded
       /\ \A r2 \in ReqIds : login[r2].pc # "idle" => login[r2].auth = auth
       /\ login' = [login EXCEPT ![r] =
            [IdleLogin EXCEPT !.pc = "find", !.auth = auth, !.client = c,
                              !.username = username, !.password = password]]
  /\ UNCHANGED <<users, user_sessions, session, now>>
  /\ UNCHANGED notLogin

\* await users.findByUsername(username), then if (!user)
FindByUsername(r) ==
  /\ Running
  \* sqlite3 runs the statements of a connection that were issued while a
  \* serialized statement is pending after the serialized ones
  /\ db.queue = <<>>
  /\ login[r].pc = "find"
  /\ \/ LET user == users_findByUsername(users, login[r].username)
        IN login' = [login EXCEPT ![r] =
             IF user = {}
             THEN LoginFailed(login[r], <<>>, <<"Invalid credentials">>)
             ELSE [login[r] EXCEPT !.pc = "compare", !.user = user]]
     \/ login' = [login EXCEPT ![r] =
          LoginFailed(login[r], <<DbError>>, <<"Database error">>)]
  /\ session' = SessionAfter(session, login'[r])
  /\ UNCHANGED <<users, user_sessions, now, logins>>
  /\ UNCHANGED notLogin

\* validPassword taken as true whatever bcrypt.compare resolved to
CompareIgnored(r) ==
  /\ Running
  /\ login[r].pc = "compare"
  /\ login' = [login EXCEPT ![r] =
       IF login[r].password = Undefined
       THEN LoginFailed(login[r], <<"Illegal arguments: undefined, string">>,
                        <<"Database error">>)
       ELSE AfterValidPassword(login[r])]
  /\ session' = SessionAfter(session, login'[r])
  /\ UNCHANGED <<users, user_sessions, now, logins>>
  /\ UNCHANGED notLogin

\* await bcrypt.compare(password, user.password), which rejects when the
\* password is no string and the catch block returns 'Database error';
\* then if (!validPassword)
Compare(r) ==
  /\ Running
  /\ login[r].pc = "compare"
  /\ \E user \in login[r].user :
       login' = [login EXCEPT ![r] =
         IF login[r].password = Undefined
         THEN LoginFailed(login[r], <<"Illegal arguments: undefined, string">>,
                          <<"Database error">>)
         ELSE IF ~BcryptCompare(login[r].password, user.password)
         THEN LoginFailed(login[r], <<>>, <<"Invalid credentials">>)
         ELSE AfterValidPassword(login[r])]
  /\ session' = SessionAfter(session, login'[r])
  /\ UNCHANGED <<users, user_sessions, now, logins>>
  /\ UNCHANGED notLogin

(***************************************************************************)
(* The system: the server after initializeDatabase, with the tables empty  *)
(* but for the users the creation script has made.                         *)
(***************************************************************************)
Init ==
  /\ conversations = {}
  /\ messages = <<>>
  /\ nextConvId = 1
  /\ now = 0
  /\ req = [r \in ReqIds |-> IdleReq]
  /\ accepted = 0
  /\ files = {}
  /\ call = [r \in ReqIds |-> IdleCall]
  /\ calls = 0
  /\ issued = {}
  /\ users = {users_create(u, Usernames[u], BcryptHash(Passwords[u])) : u \in Users}
  /\ rate_limit_log = EmptyBag
  /\ pass = [r \in ReqIds |-> IdlePass]
  /\ user_sessions = {}
  /\ session = [c \in Clients |-> [userId |-> NoId, username |-> <<>>]]
  /\ login = [r \in ReqIds |-> IdleLogin]
  /\ logins = 0
  /\ firstMessage = [content |-> Hi, title |-> NoTitle]
  /\ server = Started
  /\ db = Connection(<<>>, {Tables[i] : i \in DOMAIN Tables})

handleChat(r, u) ==
  \E body \in Bodies : Receive(r, "chat", u, body)

handleChatStream(r, u) ==
  \E body \in Bodies : Receive(r, "stream", u, body)

\* a step of a chat request in slot r, the request being one of a user in U
ChatStep(r, U) ==
  \/ \E u \in U : handleChat(r, u)
  \/ \E u \in U : handleChatStream(r, u)
  \/ CreateConversation(r)
  \/ SaveUserMessage(r)
  \/ GetContext(r)
  \/ CheckOllama(r)
  \/ SaveUnavailable(r)
  \/ TouchUnavailable(r)
  \/ OllamaChat(r)
  \/ StreamPart(r)
  \/ SaveAssistant(r)
  \/ TouchAssistant(r)
  \/ SaveError(r)
  \/ TouchError(r)

\* a request of a conversation route
RouteStep(r) ==
  \/ \E u \in Users, id \in ConvIds : GetMessages(r, u, id)
  \/ \E u \in Users, id \in ConvIds, title \in TitleInputs : PutTitle(r, u, id, title)
  \/ \E u \in Users, id \in ConvIds : DeleteConversation(r, u, id)

\* one request at a time: chat requests and conversation routes of every
\* user, and the clock
Next ==
  \/ ChatStep(1, Users)
  \/ RouteStep(1)
  \/ Tick

Spec == Init /\ [][Next]_vars

\* two chat requests of one user in flight at the same time, within one
\* second
NextConcurrent ==
  \E r \in ReqIds : ChatStep(r, {1})

SpecConcurrent == Init /\ [][NextConcurrent]_vars

\* the steps of the request in slot r after its arrival: each is the return
\* or the failure of an awaited call, or a turn of the token stream
Continue(r) ==
  \/ CreateConversation(r)
  \/ SaveUserMessage(r)
  \/ GetContext(r)
  \/ CheckOllama(r)
  \/ SaveUnavailable(r)
  \/ TouchUnavailable(r)
  \/ OllamaChat(r)
  \/ StreamPart(r)
  \/ SaveAssistant(r)
  \/ TouchAssistant(r)
  \/ SaveError(r)
  \/ TouchError(r)

\* the chat requests of one user, one at a time
NextLive == ChatStep(1, {1})

\* every awaited store call returns or fails and the upstream token stream
\* ends or fails: a request in flight takes its next step
SpecLive == Init /\ [][NextLive]_vars /\ WF_vars(Continue(1))

\* generateImage(userId, prompt, options) after its first await
generateImage(r) ==
  \/ generateWithOllama(r)
  \/ generateWithStableDiffusion(r)
  \/ generateEnhancedPlaceholder(r)

\* saveFile(userId, fileBuffer, originalName, fileType, category)
saveFile(r) ==
  \/ ensureUserDirectories(r)
  \/ WriteFile(r)
  \/ Stat(r)

\* a step of a call of POST /images/generate in slot r
ImageStep(r) ==
  \/ \E u \in Users, prompt \in Prompts : PostImagesGenerate(r, u, prompt)
  \/ generateImage(r)
  \/ saveFile(r)

\* a step of a call of the file routes in slot r, the call being one of a
\* user in U
FileStep(r, U) ==
  \/ \E u \in U, file \in Uploads : PostFilesUpload(r, u, file)
  \/ \E u \in U : GetFiles(r, u)
  \/ \E u \in U : \E fileId \in KnownIds(u) : FileRequest(r, "getFile", u, fileId)
  \/ \E u \in U : \E fileId \in KnownIds(u) : FileRequest(r, "deleteFile", u, fileId)
  \/ saveFile(r)
  \/ FindFile(r)
  \/ ReadFile(r)
  \/ Unlink(r)

\* uploads, listings, reads and deletes of every user, one call at a time,
\* and the clock
NextFiles ==
  \/ FileStep(1, Users)
  \/ Tick

SpecFiles == Init /\ [][NextFiles]_vars

\* two calls of POST /images/generate in flight at the same time, and the
\* clock
NextImages ==
  \/ \E r \in ReqIds : ImageStep(r)
  \/ Tick

SpecImages == Init /\ [][NextImages]_vars

\* rateLimitMiddleware in slot r
rateLimitMiddleware(r) ==
  \/ \E path \in Paths : RateLimitReceive(r, 1, path)
  \/ LogRequest(r)
  \/ UpdateActivity(r)
  \/ GetRequestCount(r)
  \/ LogBlocked(r)

\* the requests of one employer user through rateLimitMiddleware, one at a
\* time, and the clock
NextLimiter ==
  \/ rateLimitMiddleware(1)
  \/ Elapse

SpecLimiter == Init /\ [][NextLimiter]_vars

\* the seconds at which the clock is read: the first second of an hour, its
\* last second and the first second of the next hour
Instants == {0, MaxElapsed - 1, MaxElapsed}

\* time goes by, also while a request waits for an awaited call
ClockAdvance ==
  /\ \E t \in Instants : t > now /\ now' = t
  /\ UNCHANGED <<rate_limit_log, users, pass>>
  /\ UNCHANGED notLimiter

\* rateLimitMiddleware in slot r when no bookkeeping call rejects: the try
\* block runs to its end and the catch block is not entered
rateLimitMiddlewareNoError(r) ==
  \/ \E path \in Paths : RateLimitReceive(r, 1, path)
  \/ LogRequest(r) /\ pass'[r].pc = "activity"
  \/ UpdateActivity(r) /\ pass'[r].pc = "count"
  \/ GetRequestCount(r) /\ pass'[r].requestCount > 0
  \/ LogBlocked(r) /\ pass'[r].status = 429

\* the concurrent requests of one employer user through rateLimitMiddleware,
\* and the clock
NextLimiterConcurrent ==
  \/ \E r \in ReqIds : rateLimitMiddlewareNoError(r)
  \/ ClockAdvance

SpecLimiterConcurrent == Init /\ [][NextLimiterConcurrent]_vars

\* loginUser(username, password, req) after its first await
loginUser(r) ==
  \/ FindByUsername(r)
  \/ Compare(r)

\* requests of POST /login, two of them in flight at a time
NextLogin ==
  \E r \in ReqIds :
    \/ \E c \in Clients, username \in LoginNames, password \in LoginPasswords :
         PostLogin(r, c, username, password)
    \/ loginUser(r)

SpecLogin == Init /\ [][NextLogin]_vars

\* a first message arrives at a chat handler
InitTitle ==
  /\ conversations = {}
  /\ messages = <<>>
  /\ nextConvId = 1
  /\ now = 0
  /\ req = [r \in ReqIds |-> IdleReq]
  /\ accepted = 0
  /\ files = {}
  /\ call = [r \in ReqIds |-> IdleCall]
  /\ calls = 0
  /\ issued = {}
  /\ users = {users_create(u, Usernames[u], BcryptHash(Passwords[u])) : u \in Users}
  /\ rate_limit_log = EmptyBag
  /\ pass = [r \in ReqIds |-> IdlePass]
  /\ user_sessions = {}
  /\ session = [c \in Clients |-> [userId |-> NoId, username |-> <<>>]]
  /\ login = [r \in ReqIds |-> IdleLogin]
  /\ logins = 0
  /\ server = Started
  /\ db = Connection(<<>>, {Tables[i] : i \in DOMAIN Tables})
  /\ firstMessage \in {[content |-> c, title |-> NoTitle] : c \in FirstMessages}

\* const title = generateConversationTitle(message)
GenerateTitle ==
  /\ firstMessage.title = NoTitle
  /\ firstMessage' = [firstMessage EXCEPT
                        !.title = generateConversationTitle(firstMessage.content)]
  /\ UNCHANGED <<chatVars, now, storageVars, users, limiterVars, loginVars, startupVars>>

NextTitle == GenerateTitle

SpecTitle == InitTitle /\ [][NextTitle]_vars

\* the process when the top level of server.js has run: the database file
\* is new, or it holds the tables and the accounts of an earlier run
InitStartup ==
  /\ conversations = {}
  /\ messages = <<>>
  /\ nextConvId = 1
  /\ now = 0
  /\ req = [r \in ReqIds |-> IdleReq]
  /\ accepted = 0
  /\ files = {}
  /\ call = [r \in ReqIds |-> IdleCall]
  /\ calls = 0
  /\ issued = {}
  /\ rate_limit_log = EmptyBag
  /\ pass = [r \in ReqIds |-> IdlePass]
  /\ user_sessions = {}
  /\ session = [c \in Clients |-> [userId |-> NoId, username |-> <<>>]]
  /\ login = [r \in ReqIds |-> IdleLogin]
  /\ logins = 0
  /\ firstMessage = [content |-> Hi, title |-> NoTitle]
  /\ server = Starting
  /\ \/ /\ db = Connection(Tables, {})
        /\ users = {}
     \/ /\ db = Connection(Tables, {Tables[i] : i \in DOMAIN Tables})
        /\ users = {users_create(u, Usernames[u], BcryptHash(Passwords[u])) : u \in Users}

\* the start of the server, and the requests of POST /login that it is sent
NextStartup ==
  \/ Listen
  \/ CreateTable
  \/ NextLogin

SpecStartup == InitStartup /\ [][NextStartup]_vars

(***************************************************************************)
(* Properties.                                                             *)
(***************************************************************************)
ChatHandlers == {"chat", "stream"}

\* the step is the arrival of a request, which takes slot r
Arrives(r) == accepted' = accepted + 1 /\ FreeSlot(r)

\* the step is a step of the request in slot r that is in flight
Steps(r) == req[r].pc \notin {"idle", "done"} /\ req'[r] # req[r]

\* the ids of the stored messages of a conversation
MessageIds(msgs, cid) == {i \in 1..Len(msgs) : msgs[i].conversation_id = cid}

\* user u owns a stored conversation with this id
Owns(u, cid) == \E c \in conversations : c.id = cid /\ c.user_id = u

\* a stored conversation with this id belongs to a user other than u
OwnedByOther(u, cid) == \E c \in conversations : c.id = cid /\ c.user_id # u

\* the row of the messages table with the given id is a user turn of
\* request q: its message, in its conversation
IsUserTurnOf(id, q) ==
  \E i \in 1..Len(messages) :
    /\ messages[i].id = id
    /\ messages[i].role = "user"
    /\ messages[i].content = q.message
    /\ messages[i].conversation_id = q.currentConversationId

\* C1: in handleChat and handleChatStream, a request that has issued a call
\* to the upstream service (the probe ollama.list or ollama.chat) has its
\* user message stored: there is no state in which an upstream call of a
\* request was issued while its user message is not in the messages table.
C1_UserTurnBeforeUpstream ==
  \A r \in ReqIds :
    (req[r].handler \in ChatHandlers /\ req[r].upstream # <<>>) =>
      /\ req[r].saved # <<>>
      /\ IsUserTurnOf(req[r].saved[1], req[r])

\* a request has probed the upstream and called ollama.chat
C1_Witness ==
  \E r \in ReqIds : req[r].upstream = <<"list", "chat">>

\* a message is missing, empty or made of whitespace only
IsBlank(message) ==
  \/ message = Undefined
  \/ \A i \in 1..Len(message) : message[i] = " "

\* C3: a chat submission (streaming or not) whose message is missing, empty
\* or whitespace-only is answered 400 and ends there: no conversation is
\* created, no message stored, no updated_at changed, no upstream call made.
C3_EmptyMessageRejected ==
  [][\A r \in ReqIds :
       (/\ Arrives(r)
        /\ req'[r].handler \in ChatHandlers
        /\ IsBlank(req'[r].message)) =>
         /\ req'[r].status = 400
         /\ req'[r].pc = "done"
         /\ req'[r].ended
         /\ req'[r].saved = <<>>
         /\ req'[r].upstream = <<>>
         /\ conversations' = conversations
         /\ messages' = messages]_vars

\* a chat request was answered 400 while the store holds a conversation
C3_Witness ==
  \E r \in ReqIds :
    /\ req[r].handler \in ChatHandlers
    /\ req[r].status = 400
    /\ req[r].message = <<" ", " ">>
    /\ conversations # {}

\* C2 (as claimed): when an exception is raised after the user turn of a
\* request was stored in a conversation of its user, the handler (handleChat or handleChatStream) stores
\* an error message as an assistant turn of that conversation before it
\* surfaces the error to the client, or its attempt to store it failed and
\* was swallowed; the client receives the error either way.
C2_ErrorTurnBeforeSurfaced ==
  [][\A r \in ReqIds :
       (/\ Steps(r)
        /\ req[r].handler \in ChatHandlers
        /\ Owns(req[r].user, req[r].currentConversationId)
        /\ req[r].saved # <<>>
        /\ req'[r].pc = "done"
        /\ req'[r].error # "none") =>
         /\ req'[r].ended
         /\ \/ /\ req[r].pc = "touchError"
               /\ LET m == messages[req[r].saved[Len(req[r].saved)]]
                  IN /\ m.role = "assistant"
                     /\ m.conversation_id = req[r].currentConversationId
                     /\ m.content = ErrorText \o <<req[r].error>>
            \/ /\ req[r].pc = "saveError"
               /\ messages' = messages]_vars

C5_LatestInOrder ==
  \A r \in ReqIds :
    LET cid == req[r].currentConversationId
        ids == MessageIds(messages, cid)
        h == req[r].conversationHistory
    IN (/\ req[r].handler \in ChatHandlers
        /\ req[r].pc = "probe"
        /\ Owns(req[r].user, cid)
        /\ Cardinality(ids) = CONTEXT_WINDOW_MESSAGES + 1) =>
         /\ Len(h) = CONTEXT_WINDOW_MESSAGES + 1
         /\ h[1].role = "system"
         /\ Len(req[r].rows) = CONTEXT_WINDOW_MESSAGES
         /\ {req[r].rows[i] : i \in 1..Len(req[r].rows)}
              = {i \in ids : \E j \in ids : j < i}
         /\ \A i, j \in 1..Len(req[r].rows) :
              i < j => req[r].rows[i] < req[r].rows[j]
         /\ \A i \in 1..Len(req[r].rows) :
              /\ h[i + 1].role = messages[req[r].rows[i]].role
              /\ h[i + 1].content = messages[req[r].rows[i]].content

\* C6 (as claimed): a chat request (streaming or not) on a conversation of
\* its user whose probe failed and that met no exception has not called ollama.chat, has stored one
\* assistant message, the unavailable text followed by the user's message,
\* has bumped updated_at of its conversation, and was answered as a success:
\* a JSON body without error, or a stream without an event of type error.
C6_UnavailableIsSuccess ==
  \A r \in ReqIds :
    (/\ req[r].handler \in ChatHandlers
     /\ req[r].pc = "done"
     /\ Owns(req[r].user, req[r].currentConversationId)
     /\ req[r].upstream = <<"list">>
     /\ req[r].error = "none") =>
       /\ Len(req[r].saved) = 2
       /\ LET m == messages[req[r].saved[2]]
          IN /\ m.role = "assistant"
             /\ m.content = UnavailableText \o req[r].message
             /\ m.conversation_id = req[r].currentConversationId
             /\ \A c \in conversations :
                  c.id = req[r].currentConversationId =>
                    c.updated_at >= m.created_at
       /\ req[r].ended
       /\ req[r].status = 200
       /\ req[r].response.error = Absent
       /\ \A i \in 1..Len(req[r].events) : req[r].events[i].type # "error"

\* the request in slot r, which supplied no conversation id, completes
\* normally in this step: the assistant turn is stored and the answer sent
Completes(r) ==
  /\ req[r].handler \in ChatHandlers
  /\ req[r].conversationId = NoId
  /\ req[r].pc = "touchAssistant"
  /\ req'[r].pc = "done"
  /\ req'[r].error = "none"

\* C7 (as claimed): when a chat request that supplied no conversation id
\* completes normally, the conversation it created holds exactly one user
\* message and one assistant message, the user message first.
C7_OneUserOneAssistant ==
  [][\A r \in ReqIds :
       Completes(r) =>
         LET ids == MessageIds(messages', req[r].currentConversationId)
         IN /\ Cardinality(ids) = 2
            /\ \E i, j \in ids :
                 /\ i < j
                 /\ messages'[i].role = "user"
                 /\ messages'[j].role = "assistant"]_vars

\* C7 (amended): a chat request that supplied no conversation id creates
\* one conversation, of a new id, owned by its user and titled from the
\* message, and creates no other; it stores one user message and then one
\* assistant message in it, and when it completes normally and no other
\* request has stored a message under that id, these two are the messages
\* the conversation holds.
C7_OneUserOneAssistantAlone ==
  [][\A r \in ReqIds :
       /\ (Steps(r) /\ req[r].handler \in ChatHandlers /\ req[r].pc = "create"
             /\ req'[r].pc = "saveUser") =>
            /\ req[r].conversationId = NoId
            /\ \A c \in conversations : c.id # req'[r].currentConversationId
            /\ conversations' = conversations \cup
                 {[id |-> req'[r].currentConversationId,
                   user_id |-> req[r].user,
                   title |-> generateConversationTitle(req[r].message),
                   created_at |-> now, updated_at |-> now]}
       /\ (Steps(r) /\ req[r].handler \in ChatHandlers
             /\ ~(req[r].pc = "create" /\ req'[r].pc = "saveUser")) =>
            {c.id : c \in conversations'} = {c.id : c \in conversations}
       /\ Completes(r) =>
            LET cid == req[r].currentConversationId
                ids == MessageIds(messages', cid)
                saved == req'[r].saved
            IN /\ Len(saved) = 2
               /\ saved[1] < saved[2]
               /\ {saved[1], saved[2]} \subseteq ids
               /\ messages'[saved[1]].role = "user"
               /\ messages'[saved[1]].content = req[r].message
               /\ messages'[saved[2]].role = "assistant"
               /\ messages'[saved[2]].content = req[r].assistantResponse
               /\ (ids \subseteq {saved[1], saved[2]}) =>
                    (Cardinality(ids) = 2 /\ ids = {saved[1], saved[2]})]_vars

\* a request that supplied no conversation id has completed normally, and
\* the conversation it created, owned by its user and titled from the
\* message, holds the two messages it stored and no other
C7_Witness ==
  \E r \in ReqIds :
    /\ req[r].handler \in ChatHandlers
    /\ req[r].conversationId = NoId
    /\ req[r].pc = "done"
    /\ req[r].error = "none"
    /\ req[r].upstream = <<"list", "chat">>
    /\ Len(req[r].saved) = 2
    /\ MessageIds(messages, req[r].currentConversationId)
         = {req[r].saved[1], req[r].saved[2]}
    /\ \E c \in conversations :
         /\ c.id = req[r].currentConversationId
         /\ c.user_id = req[r].user
         /\ c.title = Hi

\* C8: for every stored conversation and every user who does not own it,
\* messages.findByConversation gives the empty sequence; the answer to
\* GET /conversations/:id/messages holds only messages of the conversation
\* asked for, and none unless the asking user owns it.
C8_MessagesOfOwnerOnly ==
  /\ \A c \in conversations : \A u \in Users :
       u # c.user_id =>
         messages_findByConversation(messages, conversations, c.id, u) = {<<>>}
  /\ \A r \in ReqIds :
       req[r].handler = "messages" =>
         /\ \A i \in 1..Len(req[r].list) :
              /\ req[r].list[i].conversation_id = req[r].currentConversationId
              /\ Owns(req[r].user, req[r].list[i].conversation_id)
         /\ ~Owns(req[r].user, req[r].currentConversationId) => req[r].list = <<>>

\* a user asked for the messages of a conversation of another user that
\* holds messages, and was answered 200 with the empty list
C8_Witness ==
  \E r \in ReqIds :
    /\ req[r].handler = "messages"
    /\ req[r].status = 200
    /\ req[r].list = <<>>
    /\ OwnedByOther(req[r].user, req[r].currentConversationId)
    /\ MessageIds(messages, req[r].currentConversationId) # {}

\* C9 (as claimed): updateTitle, updateTimestamp and delete, run for a user
\* on a conversation of another user, leave the conversations and the
\* messages as they were, and the route reports that nothing was affected
\* (404).
C9_OwnerScoped ==
  [][\A r \in ReqIds :
       /\ (/\ Arrives(r)
           /\ req'[r].handler \in {"title", "delete"}
           /\ req'[r].result \in {"true", "false"}
           /\ OwnedByOther(req'[r].user, req'[r].currentConversationId)) =>
            /\ req'[r].result = "false"
            /\ req'[r].status = 404
            /\ conversations' = conversations
            /\ messages' = messages
       /\ (/\ Steps(r)
           /\ req[r].pc \in {"touchUnavailable", "touchAssistant", "touchError"}
           /\ OwnedByOther(req[r].user, req[r].currentConversationId)) =>
            /\ conversations' = conversations
            /\ messages' = messages]_vars

\* C10: DELETE /conversations/:id is idempotent.  Called by the owner on a
\* stored conversation, it answers true (200) and removes the conversation,
\* unless the statement itself fails (500, nothing removed).  Called again
\* on that id, now gone, it never answers true: it answers false (404), or
\* 500 when the statement itself fails, and the store stays as the first
\* call left it.
C10_DeleteIdempotent ==
  [][\A r \in ReqIds :
       (Arrives(r) /\ req'[r].handler = "delete") =>
         LET u == req'[r].user
             id == req'[r].currentConversationId
         IN /\ req'[r].result \in {"true", "false", "rejected"}
            /\ (req'[r].result = "true") <=> (req'[r].status = 200)
            /\ (req'[r].result = "false") <=> (req'[r].status = 404)
            /\ (req'[r].result = "rejected") <=> (req'[r].status = 500)
            /\ Owns(u, id) =>
                 \/ /\ req'[r].result = "true"
                    /\ conversations' = {c \in conversations : c.id # id}
                 \/ /\ req'[r].result = "rejected"
                    /\ conversations' = conversations
            /\ (id < nextConvId /\ \A c \in conversations : c.id # id) =>
                 /\ req'[r].result \in {"false", "rejected"}
                 /\ conversations' = conversations
            /\ messages' = messages
            /\ nextConvId' = nextConvId]_vars

\* a conversation was deleted, and a later DELETE on its id was answered
\* false (404)
C10_Witness ==
  \E r \in ReqIds :
    /\ req[r].handler = "delete"
    /\ req[r].result = "false"
    /\ req[r].status = 404
    /\ req[r].currentConversationId < nextConvId
    /\ \A c \in conversations : c.id # req[r].currentConversationId

\* C11: deleting a conversation cascades to its messages.  After a DELETE of
\* conversation C that answered true, no message with conversation_id = C
\* remains in the messages table.
C11_DeleteCascades ==
  [][\A r \in ReqIds :
       (/\ Arrives(r)
        /\ req'[r].handler = "delete"
        /\ req'[r].result = "true") =>
         MessageIds(messages', req'[r].currentConversationId) = {}]_vars

\* C12: updated_at is bumped on every new message.  When a chat request has
\* finished, every message it saved in a stored conversation was created
\* no later than that conversation's updated_at, also when the request
\* failed after its user turn was written.
C12_BumpedOnEveryMessage ==
  \A r \in ReqIds :
    (req[r].pc = "done" /\ req[r].handler \in ChatHandlers) =>
      \A k \in 1..Len(req[r].saved) :
        \A c \in conversations :
          c.id = messages[req[r].saved[k]].conversation_id =>
            c.updated_at >= messages[req[r].saved[k]].created_at

\* the types of the events a response has carried so far
EventTypes(q) == [i \in 1..Len(q.events) |-> q.events[i].type]

\* C17: the server-sent events of a streaming exchange are typed start,
\* content, done or error and are ordered: a content event comes only after
\* the start event, nothing follows a done or an error event, at most one
\* done is emitted, and done is emitted only when the assistant turn has
\* been saved and updated_at of the conversation set to the current time.
C17_OrderedEvents ==
  [][\A r \in ReqIds :
       req'[r].handler = "stream" =>
         LET types == EventTypes(req'[r])
             cid == req[r].currentConversationId
         IN /\ \A i \in 1..Len(types) :
                 /\ types[i] \in {"start", "content", "done", "error"}
                 /\ types[i] = "content" => \E j \in 1..(i - 1) : types[j] = "start"
                 /\ types[i] \in {"done", "error"} => i = Len(types)
            /\ Cardinality({i \in 1..Len(types) : types[i] = "done"}) <= 1
            /\ (/\ Steps(r)
                /\ Len(types) = Len(req[r].events) + 1
                /\ types[Len(types)] = "done") =>
                 /\ \E k \in 1..Len(req[r].saved) :
                      LET m == messages'[req[r].saved[k]]
                      IN /\ m.role = "assistant"
                         /\ m.conversation_id = cid
                         /\ m.content = req[r].assistantResponse
                         /\ m.model = LLM_MODEL
                 /\ \A c \in conversations' : c.id = cid => c.updated_at = now]_vars

\* a streaming exchange that ended start, content, done, its conversation
\* created a second before the reply was saved
C17_Witness ==
  \E r \in ReqIds :
    /\ req[r].handler = "stream"
    /\ req[r].ended
    /\ EventTypes(req[r]) = <<"start", "content", "done">>
    /\ \E c \in conversations :
         /\ c.id = req[r].currentConversationId
         /\ c.created_at < c.updated_at

\* request r is past the save of its user turn and has not answered
PastUserTurn(r) ==
  /\ req[r].handler \in ChatHandlers
  /\ req[r].pc \notin {"idle", "done", "create", "saveUser"}

\* the ids of the messages of conversation cid, in stored order
RECURSIVE StoredIds(_, _)
StoredIds(msgs, cid) ==
  IF msgs = <<>> THEN <<>>
  ELSE LET m == msgs[Len(msgs)]
           front == StoredIds(SubSeq(msgs, 1, Len(msgs) - 1), cid)
       IN IF m.conversation_id = cid THEN Append(front, m.id) ELSE front

\* the ids of the assistant turns request r has saved
AssistantTurnsOf(r) ==
  {req[r].saved[k] : k \in {j \in 1..Len(req[r].saved) :
                              messages[req[r].saved[j]].role = "assistant"}}

\* C18: there is no at-most-one-in-flight-per-conversation guarantee.
\* While a chat request on conversation C is in flight past its user turn,
\* the save of the user turn and the context read of every other request on
\* C can go ahead: the handlers wait for nothing but their own awaited
\* call.  So two requests can both read their context before either reply
\* is stored and both append their turns (the witness).
C18_NoInFlightGuard ==
  \A r \in ReqIds : \A r2 \in ReqIds \ {r} :
    (/\ PastUserTurn(r2)
     /\ req[r].handler \in ChatHandlers
     /\ req[r].currentConversationId = req[r2].currentConversationId) =>
      /\ req[r].pc = "saveUser" =>
           ENABLED (SaveUserMessage(r) /\ req'[r].pc = "context")
      /\ req[r].pc = "context" =>
           ENABLED (GetContext(r) /\ req'[r].pc = "probe")

\* both requests on one conversation are answered, neither built its
\* context from a reply of the other, both appended their turns, and the
\* stored sequence holds their two user turns next to each other
C18_Witness ==
  \E r \in ReqIds : \E r2 \in ReqIds \ {r} :
    LET cid == req[r].currentConversationId
        ids == StoredIds(messages, cid)
    IN /\ cid # NoId
       /\ req[r2].currentConversationId = cid
       /\ req[r].pc = "done" /\ req[r2].pc = "done"
       /\ req[r].handler \in ChatHandlers /\ req[r2].handler \in ChatHandlers
       /\ Len(req[r].saved) = 2 /\ Len(req[r2].saved) = 2
       /\ AssistantTurnsOf(r) # {} /\ AssistantTurnsOf(r2) # {}
       /\ \A i \in 1..Len(req[r].rows) : req[r].rows[i] \notin AssistantTurnsOf(r2)
       /\ \A i \in 1..Len(req[r2].rows) : req[r2].rows[i] \notin AssistantTurnsOf(r)
       /\ \E i \in 1..Len(req[r].rows) : \E j \in 1..Len(req[r2].rows) :
            req[r].rows[i] = req[r2].rows[j]
       /\ \E i \in 1..(Len(ids) - 1) :
            /\ messages[ids[i]].role = "user"
            /\ messages[ids[i + 1]].role = "user"
            /\ {ids[i], ids[i + 1]} = {req[r].saved[1], req[r2].saved[1]}

\* the metadata that saveFile returned to user u for files still stored
\* with the bytes that were saved
SavedAndStored(u) ==
  {i \in issued :
     /\ i.by = "saveFile"
     /\ i.entry.userId = u
     /\ \E f \in files : /\ f.userId = u
                         /\ f.category = i.entry.category
                         /\ f.fileName = i.entry.fileName
                         /\ f.content = i.bytes}

\* C13: blob storage round trip.  getFile(userId, id) with the id of the
\* metadata saveFile returned, the file being stored as saved and listed by
\* the getUserFiles call inside getFile, and readFile not failing, succeeds
\* and returns exactly the saved bytes.
C13_RoundTrip ==
  \A r \in ReqIds :
    (call[r].pc = "done" /\ call[r].op = "getFile") =>
      \A i \in SavedAndStored(call[r].userId) :
        (/\ i.entry.id = call[r].fileId
         /\ \E k \in 1..Len(call[r].userFiles) :
              call[r].userFiles[k].fileName = i.entry.fileName
         /\ call[r].caught # <<"ENOENT">>) =>
          /\ call[r].status = 200
          /\ call[r].content = i.bytes

\* C14: the identity of a stored file is a function of (user id, stored
\* file name).  Every entry of a listing by getUserFiles carries the id
\* that the metadata returned by saveFile for that file carried, and two
\* entries of one listing never share an id.
C14_StableIdentity ==
  \A r \in ReqIds :
    (call[r].pc = "done" /\ call[r].op = "getUserFiles") =>
      LET userFiles == call[r].userFiles
      IN /\ \A k \in 1..Len(userFiles) :
              \A i \in SavedAndStored(call[r].userId) :
                i.entry.fileName = userFiles[k].fileName =>
                  i.entry.id = userFiles[k].id
         /\ \A k, l \in 1..Len(userFiles) :
              userFiles[k].id = userFiles[l].id => k = l

\* the stages of generateImage in their order of preference
StageOrder == <<"ollama", "sd", "placeholder">>

\* C15: generateImage runs its stages as a strict fallback chain.  The
\* stages are attempted in the order Ollama, Stable Diffusion, placeholder,
\* each only if no earlier one produced an image; the buffer given to
\* saveFile and written to the file is the image of the first successful
\* stage; generateImage fails only when all three stages produced no image
\* or when saveFile failed, never because stage 1 or stage 2 failed.
C15_FallbackChain ==
  [][\A r \in ReqIds :
       (call'[r].op = "generateImage" /\ call'[r].status # 400) =>
         LET q == call'[r]
             st == q.stages
         IN /\ Len(st) <= Len(StageOrder)
            /\ \A k \in 1..Len(st) : st[k].stage = StageOrder[k]
            /\ \A k \in 1..(Len(st) - 1) : st[k].image = Absent
            /\ q.imageBuffer = IF st = <<>> THEN Absent ELSE st[Len(st)].image
            /\ q.pc \in {"mkdir", "write", "stat"} =>
                 /\ q.imageBuffer # Absent
                 /\ q.fileBuffer = q.imageBuffer
            /\ (call[r].pc = "write" /\ q.pc = "stat") =>
                 \E f \in files' : /\ f.userId = q.userId
                                   /\ f.category = "images"
                                   /\ f.fileName = q.fileName
                                   /\ f.content = q.imageBuffer
            /\ q.pc = "done" =>
                 \/ /\ q.status = 200
                    /\ q.imageBuffer # Absent
                    /\ q.metadata.fileName = q.fileName
                 \/ /\ q.status = 500
                    /\ q.error = <<"Failed to generate image">>
                    /\ \/ /\ Len(st) = Len(StageOrder)
                          /\ q.imageBuffer = Absent
                       \/ /\ q.imageBuffer # Absent
                          /\ q.caught = <<"Failed to save file">>]_vars

\* generateImage succeeded after stage 1 failed: the stored file holds the
\* image of Stable Diffusion, and the placeholder stage never ran
C15_Witness ==
  \E r \in ReqIds :
    /\ call[r].op = "generateImage"
    /\ call[r].pc = "done"
    /\ call[r].status = 200
    /\ call[r].stages = <<[stage |-> "ollama", image |-> Absent],
                          [stage |-> "sd", image |-> StableDiffusionImage]>>
    /\ \E f \in files : /\ f.userId = call[r].userId
                        /\ f.fileName = call[r].metadata.fileName
                        /\ f.content = StableDiffusionImage

\* the call in slot r is a generateImage call that has resolved
Generated(r) ==
  /\ call[r].op = "generateImage"
  /\ call[r].pc = "done"
  /\ call[r].status = 200

\* the file that the call in slot r saved is stored and holds its image
StoredOwnImage(r) ==
  \E f \in files : /\ f.userId = call[r].userId
                    /\ f.category = "images"
                    /\ f.fileName = call[r].metadata.fileName
                    /\ f.content = call[r].imageBuffer

\* C16: two concurrent generateImage requests with an identical prompt, of
\* one user or of two, produce two distinct stored files with different
\* identifiers: the paths differ, the ids of the returned metadata differ,
\* and afterwards both files are stored, each with the image of its own
\* request.
C16_DistinctFiles ==
  \A r1 \in ReqIds : \A r2 \in ReqIds \ {r1} :
    (Generated(r1) /\ Generated(r2) /\ call[r1].prompt = call[r2].prompt) =>
      /\ <<call[r1].userId, call[r1].metadata.fileName>> #
           <<call[r2].userId, call[r2].metadata.fileName>>
      /\ call[r1].metadata.id # call[r2].metadata.id
      /\ StoredOwnImage(r1)
      /\ StoredOwnImage(r2)

\* the requests that the user of the pass in slot r made in the last 60
\* minutes before this one: the rows of the window without the row that
\* the pass logged for itself
EarlierRequests(r) ==
  rateLimiter_getRequestCount(rate_limit_log, pass[r].userId, WindowMinutes, now) - 1

\* the hourly allowance of chat requests that an employer user is told of
EmployerChatAllowance == RATE_LIMITS.employer.chat_requests_per_hour

\* C19: an employer user is allowed 30 chat requests per hour: a chat
\* request is answered 429 only once 30 requests have already been made in
\* the preceding 60 minutes, so the 30th chat request of an hour is admitted.
C19_ThirtyAdmitted ==
  [][\A r \in ReqIds :
       (/\ pass[r].pc = "logBlocked"
        /\ pass[r].endpointType = "chat"
        /\ pass[r].userRole = "employer"
        /\ pass'[r].status = 429)
       => EarlierRequests(r) >= EmployerChatAllowance]_vars

\* the login attempt q names no account
UnknownUsername(q) == \A u \in Users : Usernames[u] # q.username

\* the login attempt q names an account and carries a password, which is
\* not the password of the account
WrongPassword(q) ==
  \E u \in Users : /\ Usernames[u] = q.username
                   /\ q.password # Undefined
                   /\ q.password # Passwords[u]

\* the step is a step of the login attempt in slot r
LoginSteps(r) == login[r].pc \in {"find", "compare"} /\ login'[r] # login[r]

\* C20: a login attempt with an unknown username or a wrong password changes
\* no state at any of its steps (no row of user_sessions is created, no
\* session gets a userId, no row of users is updated), and it is answered
\* 401 without success, with the error 'Invalid credentials' unless the
\* lookup of the user was rejected by the database.
C20_BadCredentials ==
  [][\A r \in ReqIds :
       (LoginSteps(r) /\ (UnknownUsername(login[r]) \/ WrongPassword(login[r])))
       => /\ UNCHANGED <<user_sessions, session, users>>
          /\ login'[r].pc = "done" =>
               /\ login'[r].status = 401
               /\ ~login'[r].success
               /\ IF login'[r].caught = <<DbError>>
                  THEN login'[r].error = <<"Database error">>
                  ELSE login'[r].error = <<"Invalid credentials">>]_vars

\* an attempt with an unknown username and one with the wrong password of
\* an existing account have both been answered 401 'Invalid credentials',
\* while the browser of the second holds the session of an earlier login
C20_Witness ==
  \E r1 \in ReqIds : \E r2 \in ReqIds :
    /\ login[r1].pc = "done" /\ UnknownUsername(login[r1])
    /\ login[r1].status = 401 /\ login[r1].error = <<"Invalid credentials">>
    /\ login[r2].pc = "done" /\ WrongPassword(login[r2])
    /\ login[r2].status = 401 /\ login[r2].error = <<"Invalid credentials">>
    /\ session[login[r2].client].userId # NoId

\* C21: database initialization failure is fatal: once the creation of any
\* of the five tables has failed, the promise of initializeDatabase is
\* rejected and the process has halted with a failure exit.
C21_InitFailureFatal ==
  db.failed # {} => server.promise = "rejected" /\ ~Running

\* C30: no request is handled against the store before the database
\* initialization has completed: a request whose handler has issued its
\* query was received when the promise of initializeDatabase had resolved.
C30_NoRequestBeforeInit ==
  [][\A r \in ReqIds :
       (login[r].pc \in {"idle", "done"} /\ login'[r].pc = "find")
       => server.promise = "resolved"]_vars

\* the text ends with the ellipsis marker
EndsWithEllipsis(text) ==
  /\ Len(text) >= Len(Ellipsis)
  /\ SubSeq(text, Len(text) - Len(Ellipsis) + 1, Len(text)) = Ellipsis

\* the title without its ellipsis marker
TitleText(text) ==
  IF EndsWithEllipsis(text) THEN SubSeq(text, 1, Len(text) - Len(Ellipsis)) ELSE text

\* the ellipsis marker is there if and only if the title does not hold the
\* whole stripped message
C22_EllipsisIffCut ==
  firstMessage.title # NoTitle =>
    (EndsWithEllipsis(firstMessage.title) <=>
       TitleText(firstMessage.title) # extractPlainText(firstMessage.content))

\* C22: the title of a new conversation is at most 50 characters long plus
\* the ellipsis marker, and the ellipsis marker is present if and only if
\* text of the stripped message was cut.
C22_TitleBounded ==
  firstMessage.title # NoTitle =>
    /\ Len(firstMessage.title) <= TitleChars + Len(Ellipsis)
    /\ EndsWithEllipsis(firstMessage.title) <=>
         TitleText(firstMessage.title) # extractPlainText(firstMessage.content)

\* the ids under which getUserFiles lists the stored files of user u
OwnFileIds(u) == {ListedEntry(f).id : f \in {g \in files : g.userId = u}}

\* the request in slot r names a file id that is missing or belongs to
\* another user
ForeignFileId(r) ==
  /\ call[r].op \in {"getFile", "deleteFile"}
  /\ call[r].fileId \notin OwnFileIds(call[r].userId)

\* C23: a file view, download, info or delete request naming a file id that
\* is missing or belongs to another user is answered 404 and changes no
\* stored file of any user.
C23_ForeignFileNotFound ==
  [][\A r \in ReqIds :
       (call[r].pc = "find" /\ call'[r].pc = "done" /\ ForeignFileId(r))
       => call'[r].status = 404 /\ files' = files]_vars

\* a request naming such an id never changes a stored file, and a view of it
\* is answered 404
C23_ForeignFileUntouched ==
  [][\A r \in ReqIds :
       (call[r].pc = "find" /\ call'[r] # call[r] /\ ForeignFileId(r))
       => /\ call'[r].pc = "done"
          /\ files' = files
          /\ call[r].op = "getFile" => call'[r].status = 404]_vars

\* the stored conversations with this id
ConversationRows(convs, cid) == {c \in convs : c.id = cid}

\* C24: no entity is shared across owners under chat submission: no step of
\* a chat request by a user that supplied the id of a conversation owned by
\* another user appends a message to that conversation, bumps its
\* updated_at, or loads the context sent upstream from it.
C24_NoCrossOwnerChat ==
  [][\A r \in ReqIds :
       (/\ Steps(r)
        /\ req[r].handler \in ChatHandlers
        /\ OwnedByOther(req[r].user, req[r].currentConversationId))
       => LET cid == req[r].currentConversationId
          IN /\ MessageIds(messages', cid) = MessageIds(messages, cid)
             /\ ConversationRows(conversations', cid) = ConversationRows(conversations, cid)
             /\ req'[r].conversationHistory = req[r].conversationHistory]_vars

\* C25: every persisted message references a conversation that exists: in
\* every reachable state each stored message's conversation_id is the id of
\* a stored conversation.
C25_MessageHasConversation ==
  \A i \in 1..Len(messages) :
    \E c \in conversations : c.id = messages[i].conversation_id

\* C26: the context a chat request sends upstream has as its last entry the
\* user message that this same request just persisted: the newest row that
\* the request has loaded is the row it saved.
C26_OwnMessageLast ==
  \A r \in ReqIds :
    (req[r].handler \in ChatHandlers /\ req[r].pc \in {"probe", "chat"}) =>
      /\ req[r].rows # <<>>
      /\ req[r].rows[Len(req[r].rows)] = req[r].saved[1]
      /\ req[r].conversationHistory[Len(req[r].conversationHistory)]
           = [role |-> "user", content |-> req[r].message]

\* the content of the content events among the events, joined in the order
\* of their emission
RECURSIVE Relayed(_)
Relayed(events) ==
  IF events = <<>> THEN <<>>
  ELSE (IF Head(events).type = "content" THEN Head(events).content ELSE <<>>)
         \o Relayed(Tail(events))

\* C27: in a streaming exchange whose response has ended and that relayed
\* content to the client, the assistant message persisted for the exchange
\* is the concatenation, in emission order, of the content of the content
\* events relayed, also when the upstream stream failed after some chunks.
C27_RelayedIsPersisted ==
  \A r \in ReqIds :
    (/\ req[r].handler = "stream"
     /\ req[r].ended
     /\ Relayed(req[r].events) # <<>>) =>
      \E k \in 1..Len(req[r].saved) :
        /\ messages[req[r].saved[k]].role = "assistant"
        /\ messages[req[r].saved[k]].content = Relayed(req[r].events)

\* a streaming exchange that has stored its assistant message stored the
\* concatenation of the content it relayed
C27_PersistedIsRelayed ==
  \A r \in ReqIds :
    (req[r].handler = "stream" /\ req[r].pc = "touchAssistant") =>
      messages[req[r].saved[Len(req[r].saved)]].content = Relayed(req[r].events)

\* C28: every streaming chat request that passes validation eventually
\* closes its response, on the normal, upstream-unavailable and exception
\* paths alike, provided every awaited store call returns or fails and the
\* upstream token stream ends or fails.
C28_StreamCloses ==
  \A r \in ReqIds :
    (req[r].handler = "stream" /\ req[r].pc \notin {"idle", "done"}) ~> req[r].ended

\* a streaming request has closed its response after the exception path: the
\* last event written is the error event of the catch block
C28_Witness ==
  \E r \in ReqIds :
    /\ req[r].handler = "stream"
    /\ req[r].ended
    /\ req[r].error # "none"
    /\ req[r].events # <<>>
    /\ req[r].events[Len(req[r].events)].type = "error"

\* the number of rows of the log that fulfil the condition keep
CountRows(keep(_)) ==
  BagCardinality([row \in {x \in BagToSet(rate_limit_log) : keep(x)}
                    |-> rate_limit_log[row]])

\* the requests of user u for an endpoint of the type that were logged in
\* the 60 minutes that start at second t0
RequestsLogged(u, type, t0) ==
  LET keep(x) == /\ x.user_id = u
                 /\ ~x.was_blocked
                 /\ getEndpointType(x.endpoint) = type
                 /\ x.request_time >= t0
                 /\ x.request_time < t0 + WindowMinutes * SecondsPerMinute
  IN CountRows(keep)

\* the requests of user u that were refused: the blocked rows and the
\* passes that are about to write one
RequestsRefused(u) ==
  LET keep(x) == x.user_id = u /\ x.was_blocked
  IN CountRows(keep)
       + Cardinality({r \in ReqIds : pass[r].userId = u /\ pass[r].pc = "logBlocked"})

\* the logged requests of user u that are neither admitted nor refused yet
RequestsUndecided(u) ==
  Cardinality({r \in ReqIds : pass[r].userId = u /\ pass[r].pc \in {"activity", "count"}})

\* C29: for a single authenticated user and absent bookkeeping errors, in
\* any interleaving of the user's concurrent requests through
\* rateLimitMiddleware, the number of requests of an endpoint type admitted
\* within any 60-minute window never exceeds the hourly limit of the user's
\* role for that endpoint type.  Of the chat requests logged within a
\* window, those neither refused nor undecided are admitted.
C29_NeverOverLimit ==
  \A t0 \in Instants :
    RequestsLogged(1, "chat", t0) - RequestsRefused(1) - RequestsUndecided(1)
      <= getRateLimit("employer", "chat")

====
